---- MODULE Spec2Model ----
(***************************************************************************)
(* A model of trackshapeutils.Shapefile (src/trackshapeutils/              *)
(* trackshapeutils.py): the in-memory line list of a shape document, the   *)
(* file it was loaded from, and the IndexedTrilist / Vertex handles a      *)
(* client holds while it edits the document.                               *)
(*                                                                         *)
(* The line list is kept in parsed form: every keyed scan of the source    *)
(* (points, uv_points, normals, and per (LOD, sub-object) the              *)
(* geometry_info, cullable_prims, vertices, vertex_set and                 *)
(* indexed_trilist lines, and the prim_state names) reads or rewrites one   *)
(* field below.  Index lists                                               *)
(* are stored as the text lines the source emits (chunks of tokens).       *)
(* Python's None is the integer None (-1) for Optional[int] results.       *)
(* Coordinates are integers in units of 0.00001.                           *)
(* geo is the query a client puts to the Trackcenter functions: a Point,   *)
(* a Trackcenter, a plane token and the Point returned.                    *)
(***************************************************************************)
EXTENDS Integers, Sequences, FiniteSets, TLC

VARIABLES lines, file, th, vh, last, nops, geo

vars == <<lines, file, th, vh, last, nops, geo>>

None == 0 - 1

\* ---------------------------------------------------------------- bounds
MaxOps == 2

\* ------------------------------------------------------ program constants
IdxChunk == 197
FlagChunk == 100
FaceMarker == 3
DefaultFlag == 0

\* ---------------------------------------------------------------- helpers
RECURSIVE SumSeq(_)
SumSeq(s) == IF s = <<>> THEN 0 ELSE Head(s) + SumSeq(Tail(s))

Min(a, b) == IF a < b THEN a ELSE b

\* Python s[from : to] for 0 <= from <= to
Slice(s, from, to) == SubSeq(s, from + 1, Min(to, Len(s)))

RECURSIVE Flatten(_)
Flatten(ls) == IF ls = <<>> THEN <<>> ELSE Head(ls) \o Flatten(Tail(ls))

RECURSIVE Chunks(_, _)
Chunks(s, k) ==
    IF s = <<>> THEN <<>>
    ELSE <<SubSeq(s, 1, Min(k, Len(s)))>> \o Chunks(SubSeq(s, Min(k, Len(s)) + 1, Len(s)), k)

\* a text line of an index list: its tokens between the name and the closing
\* parenthesis, and whether the line ends with ")"
Line(toks, closed) == [toks |-> toks, closed |-> closed]

\* variant: the first line carries no count in front of the indices
RenderLinesNoCount(s, k, count) ==
    IF s = <<>> THEN <<Line(<<0>>, TRUE)>>
    ELSE LET chunks == Chunks(s, k)
         IN  [index \in 1..Len(chunks) |-> Line(chunks[index], index = Len(chunks))]

\* the text lines emitted for one index list: "name ( 0 )" when empty, else
\* the count and the first chunk, then one line per further chunk, the last
\* one closed
RenderLines(s, k, count) ==
    IF s = <<>> THEN <<Line(<<0>>, TRUE)>>
    ELSE LET chunks == Chunks(s, k)
         IN  [index \in 1..Len(chunks) |->
                Line(IF index = 1 THEN <<count>> \o chunks[index] ELSE chunks[index],
                     index = Len(chunks))]

\* the tokens read back from the lines of one index list: the first token of
\* a line is dropped unless the line continues an open one
RECURSIVE CollectTokens(_, _, _)
CollectTokens(ls, i, collecting) ==
    IF i > Len(ls) THEN <<>>
    ELSE LET parts == ls[i].toks
             vals == IF parts # <<>> /\ ~collecting THEN Tail(parts) ELSE parts
         IN  vals \o CollectTokens(ls, i + 1, ~ls[i].closed)

ParseLines(ls) == CollectTokens(ls, 1, FALSE)

\* str(round(x, 4)) read back by float(): x in units of 0.00001
Round4(x) ==
    LET q == x \div 10
        r == x % 10
    IN  IF r < 5 THEN q * 10
        ELSE IF r > 5 THEN (q + 1) * 10
        ELSE IF q % 2 = 0 THEN q * 10 ELSE (q + 1) * 10

HasSub(d, lod, sub) == <<lod, sub>> \in DOMAIN d.subs

\* ------------------------------------------------- points / uv / normals
\* Optional[Point]: the stored value, or None (coordinates are not negative)
get_point_by_idx(d, point_idx) ==
    IF point_idx >= 0 /\ point_idx < Len(d.points.recs)
    THEN d.points.recs[point_idx + 1] ELSE None

get_uvpoint_by_idx(d, uv_point_idx) ==
    IF uv_point_idx >= 0 /\ uv_point_idx < Len(d.uv_points.recs)
    THEN d.uv_points.recs[uv_point_idx + 1] ELSE None

get_normal_by_idx(d, normal_idx) ==
    IF normal_idx >= 0 /\ normal_idx < Len(d.normals.recs)
    THEN d.normals.recs[normal_idx + 1] ELSE None

set_point_value(d, point_idx, point) ==
    IF point_idx >= 0 /\ point_idx < Len(d.points.recs)
    THEN [doc |-> [d EXCEPT !.points.recs[point_idx + 1] = Round4(point)], ret |-> TRUE]
    ELSE [doc |-> d, ret |-> FALSE]

set_point_count(d, point_count) ==
    IF d.points.present
    THEN [doc |-> [d EXCEPT !.points.count = point_count], ret |-> TRUE]
    ELSE [doc |-> d, ret |-> FALSE]

\* variant: the record is appended and the declared count is left as it was
add_point_stale_count(d, point) ==
    IF d.points.present
    THEN [doc |-> [d EXCEPT !.points.recs = Append(@, Round4(point))], ret |-> Len(d.points.recs)]
    ELSE [doc |-> d, ret |-> None]

add_point(d, point) ==
    IF d.points.present
    THEN LET d1 == [d EXCEPT !.points.recs = Append(@, Round4(point))]
         IN  [doc |-> set_point_count(d1, Len(d.points.recs) + 1).doc,
              ret |-> Len(d.points.recs)]
    ELSE [doc |-> d, ret |-> None]

\* variant: the scan reports success also when no record has the index
set_uvpoint_value_always_true(d, uv_point_idx, uv_point) ==
    IF uv_point_idx >= 0 /\ uv_point_idx < Len(d.uv_points.recs)
    THEN [doc |-> [d EXCEPT !.uv_points.recs[uv_point_idx + 1] = Round4(uv_point)], ret |-> TRUE]
    ELSE [doc |-> d, ret |-> TRUE]

set_uvpoint_value(d, uv_point_idx, uv_point) ==
    IF uv_point_idx >= 0 /\ uv_point_idx < Len(d.uv_points.recs)
    THEN [doc |-> [d EXCEPT !.uv_points.recs[uv_point_idx + 1] = Round4(uv_point)], ret |-> TRUE]
    ELSE [doc |-> d, ret |-> FALSE]

set_uvpoint_count(d, uv_point_count) ==
    IF d.uv_points.present
    THEN [doc |-> [d EXCEPT !.uv_points.count = uv_point_count], ret |-> TRUE]
    ELSE [doc |-> d, ret |-> FALSE]

add_uvpoint(d, uv_point) ==
    IF d.uv_points.present
    THEN LET d1 == [d EXCEPT !.uv_points.recs = Append(@, Round4(uv_point))]
         IN  [doc |-> set_uvpoint_count(d1, Len(d.uv_points.recs) + 1).doc,
              ret |-> Len(d.uv_points.recs)]
    ELSE [doc |-> d, ret |-> None]

set_normal_value(d, normal_idx, normal) ==
    IF normal_idx >= 0 /\ normal_idx < Len(d.normals.recs)
    THEN [doc |-> [d EXCEPT !.normals.recs[normal_idx + 1] = Round4(normal)], ret |-> TRUE]
    ELSE [doc |-> d, ret |-> FALSE]

set_normal_count(d, normals_count) ==
    IF d.normals.present
    THEN [doc |-> [d EXCEPT !.normals.count = normals_count], ret |-> TRUE]
    ELSE [doc |-> d, ret |-> FALSE]

\* variant: the index returned is the count after the insertion
add_normal_returns_count(d, normal) ==
    IF d.normals.present
    THEN LET d1 == [d EXCEPT !.normals.recs = Append(@, Round4(normal))]
         IN  [doc |-> set_normal_count(d1, Len(d.normals.recs) + 1).doc,
              ret |-> Len(d.normals.recs) + 1]
    ELSE [doc |-> d, ret |-> None]

add_normal(d, normal) ==
    IF d.normals.present
    THEN LET d1 == [d EXCEPT !.normals.recs = Append(@, Round4(normal))]
         IN  [doc |-> set_normal_count(d1, Len(d.normals.recs) + 1).doc,
              ret |-> Len(d.normals.recs)]
    ELSE [doc |-> d, ret |-> None]

\* ------------------------------------------------------------- handles
\* an IndexedTrilist object (vertex_idxs, normal_idxs, flags are flat lists)
TrilistHandle(tidx, lod, sub, ps, v, n, f) ==
    [tidx |-> tidx, lod |-> lod, sub |-> sub, ps |-> ps, v |-> v, n |-> n, f |-> f]

\* a Vertex object
VertexHandle(idx, lod, sub, point, uv, pidx, uvidx, nidx) ==
    [idx |-> idx, lod |-> lod, sub |-> sub, point |-> point, uv |-> uv,
     pidx |-> pidx, uvidx |-> uvidx, nidx |-> nidx]

\* the None returned where a Vertex was expected
NoVertex == VertexHandle(None, None, None, 0, 0, None, None, None)

\* ------------------------------------------------------ trilist reading
RECURSIVE PsKeys(_, _, _)
PsKeys(tl, i, acc) ==
    IF i > Len(tl) THEN acc
    ELSE PsKeys(tl, i + 1,
                IF \E j \in 1..Len(acc) : acc[j] = tl[i].ps THEN acc ELSE Append(acc, tl[i].ps))

IdxWithPs(tl, ps) == SelectSeq([i \in 1..Len(tl) |-> i], LAMBDA i : tl[i].ps = ps)

\* positions of the trilists in the iteration order of the dict
\* {prim_state_idx: [trilists]} that get_indexed_trilists_in_subobject builds
DictOrder(tl) ==
    LET keys == PsKeys(tl, 1, <<>>)
    IN  Flatten([k \in 1..Len(keys) |-> IdxWithPs(tl, keys[k])])

get_indexed_trilists_in_subobject(d, lod, sub) ==
    IF ~HasSub(d, lod, sub) THEN <<>>
    ELSE LET tl == d.subs[<<lod, sub>>].tl
             ord == DictOrder(tl)
         IN  [j \in 1..Len(ord) |->
                TrilistHandle(ord[j] - 1, lod, sub, tl[ord[j]].ps,
                              ParseLines(tl[ord[j]].v), ParseLines(tl[ord[j]].n),
                              ParseLines(tl[ord[j]].f))]

\* --------------------------------------------------------- prim states
\* a PrimState object
PrimState(idx, name) == [idx |-> idx, name |-> name]

\* the None returned where a PrimState was expected
NoPrimState == PrimState(None, "")

get_prim_states_by_name(d, prim_state_name) ==
    SelectSeq([i \in 1..Len(d.prim_states) |-> PrimState(i - 1, d.prim_states[i])],
              LAMBDA p : p.name = prim_state_name)

get_prim_state_by_idx(d, prim_state_idx) ==
    IF prim_state_idx >= 0 /\ prim_state_idx < Len(d.prim_states)
    THEN PrimState(prim_state_idx, d.prim_states[prim_state_idx + 1])
    ELSE NoPrimState

\* variant: the dict is indexed without the membership test in front
get_indexed_trilists_in_subobject_by_prim_state_unchecked(d, lod, sub, prim_state) ==
    LET hs == get_indexed_trilists_in_subobject(d, lod, sub)
        found == SelectSeq(hs, LAMBDA h : h.ps = prim_state.idx)
    IN  [ret |-> found, exc |-> IF found = <<>> THEN "KeyError" ELSE "none"]

get_indexed_trilists_in_subobject_by_prim_state(d, lod, sub, prim_state) ==
    LET hs == get_indexed_trilists_in_subobject(d, lod, sub)
    IN  [ret |-> SelectSeq(hs, LAMBDA h : h.ps = prim_state.idx), exc |-> "none"]

\* --------------------------------------------------------- aggregates
RECURSIVE CullLoop(_, _, _, _, _)
CullLoop(cull, i, current_prim_total, normal_idxs_counts, vertex_idxs_counts) ==
    IF i > Len(cull) THEN cull
    ELSE LET num_primitives == cull[i].n
             from_idx == current_prim_total - 1
             to_idx == current_prim_total - 1 + num_primitives
             e == [n |-> num_primitives,
                   tris |-> SumSeq(Slice(normal_idxs_counts, from_idx, to_idx)),
                   vtx |-> SumSeq(Slice(vertex_idxs_counts, from_idx, to_idx))]
         IN  CullLoop([cull EXCEPT ![i] = e], i + 1, current_prim_total + num_primitives,
                      normal_idxs_counts, vertex_idxs_counts)

update_geometry_info(d, lod, sub) ==
    IF ~HasSub(d, lod, sub) THEN [doc |-> d, ret |-> FALSE]
    ELSE LET hs == get_indexed_trilists_in_subobject(d, lod, sub)
             vertex_idxs_counts == [j \in 1..Len(hs) |-> Len(hs[j].v)]
             normal_idxs_counts == [j \in 1..Len(hs) |-> Len(hs[j].v) \div 3]
             s == d.subs[<<lod, sub>>]
             s1 == [s EXCEPT !.ginfo = [tris |-> SumSeq(normal_idxs_counts),
                                        vtx |-> SumSeq(vertex_idxs_counts)],
                             !.cull = CullLoop(s.cull, 1, 1, normal_idxs_counts, vertex_idxs_counts)]
         IN  [doc |-> [d EXCEPT !.subs[<<lod, sub>>] = s1], ret |-> Len(s.cull) > 0]

\* ---------------------------------------------------------- vertex sets
RECURSIVE FindNode(_, _, _, _)
FindNode(cull, i, current_prim_total, trilist_idx) ==
    IF i > Len(cull) THEN None
    ELSE IF current_prim_total + cull[i].n > trilist_idx THEN i - 1
    ELSE FindNode(cull, i + 1, current_prim_total + cull[i].n, trilist_idx)

RECURSIVE VertexSetLoop(_, _, _, _, _, _)
VertexSetLoop(vs, i, vertexset_idx_to_update, adjust, vertexset_count_total, new_vertex_idx) ==
    IF i > Len(vs) THEN [vsets |-> vs, ret |-> new_vertex_idx]
    ELSE LET e == vs[i]
             hit == e.idx = vertexset_idx_to_update
             e1 == IF adjust THEN [e EXCEPT !.start = vertexset_count_total] ELSE e
             e2 == IF hit THEN [e1 EXCEPT !.count = e.count + 1] ELSE e1
         IN  VertexSetLoop([vs EXCEPT ![i] = e2], i + 1, vertexset_idx_to_update,
                           adjust \/ hit,
                           vertexset_count_total + e.count + (IF hit THEN 1 ELSE 0),
                           IF hit THEN e.count ELSE new_vertex_idx)

\* variant: the start indices of the vertex sets behind the one that grew
\* are left as they were
increase_vertexset_count_keeps_starts(d, lod, sub, h) ==
    IF ~HasSub(d, lod, sub) THEN [doc |-> d, ret |-> None]
    ELSE LET s == d.subs[<<lod, sub>>]
             target == FindNode(s.cull, 1, 0, h.tidx)
             r == VertexSetLoop(s.vsets, 1, target, FALSE, 0, None)
         IN  [doc |-> [d EXCEPT !.subs[<<lod, sub>>].vsets =
                          [m \in 1..Len(s.vsets) |->
                              [r.vsets[m] EXCEPT !.start = s.vsets[m].start]]],
              ret |-> r.ret]

increase_vertexset_count(d, lod, sub, h) ==
    IF ~HasSub(d, lod, sub) THEN [doc |-> d, ret |-> None]
    ELSE LET s == d.subs[<<lod, sub>>]
             target == FindNode(s.cull, 1, 0, h.tidx)
             r == VertexSetLoop(s.vsets, 1, target, FALSE, 0, None)
         IN  [doc |-> [d EXCEPT !.subs[<<lod, sub>>].vsets = r.vsets], ret |-> r.ret]

\* ------------------------------------------------ serialization primitive
\* variant: success is reported also when no line of the trilist was found
update_indexed_trilist_always_true(d, h) ==
    IF HasSub(d, h.lod, h.sub) /\ h.tidx >= 0 /\ h.tidx < Len(d.subs[<<h.lod, h.sub>>].tl)
    THEN LET d1 == [d EXCEPT !.subs[<<h.lod, h.sub>>].tl[h.tidx + 1] =
                        [ps |-> @.ps,
                         v |-> RenderLines(h.v, IdxChunk, Len(h.v)),
                         n |-> RenderLines(h.n, IdxChunk, Len(h.v) \div 3),
                         f |-> RenderLines(h.f, FlagChunk, Len(h.f))]]
         IN  [doc |-> update_geometry_info(d1, h.lod, h.sub).doc, ret |-> TRUE]
    ELSE [doc |-> d, ret |-> TRUE]

update_indexed_trilist(d, h) ==
    IF HasSub(d, h.lod, h.sub) /\ h.tidx >= 0 /\ h.tidx < Len(d.subs[<<h.lod, h.sub>>].tl)
    THEN LET d1 == [d EXCEPT !.subs[<<h.lod, h.sub>>].tl[h.tidx + 1] =
                        [ps |-> @.ps,
                         v |-> RenderLines(h.v, IdxChunk, Len(h.v)),
                         n |-> RenderLines(h.n, IdxChunk, Len(h.v) \div 3),
                         f |-> RenderLines(h.f, FlagChunk, Len(h.f))]]
         IN  [doc |-> update_geometry_info(d1, h.lod, h.sub).doc, ret |-> TRUE]
    ELSE [doc |-> d, ret |-> FALSE]

\* ------------------------------------------------------------- vertices
\* the vertex records of a sub-object in the order the scans meet them
VertexScan(s) == s.verts \o s.stray

get_vertex_in_subobject_by_idx(d, lod, sub, vertex_idx) ==
    IF HasSub(d, lod, sub) /\ vertex_idx >= 0
          /\ vertex_idx < Len(VertexScan(d.subs[<<lod, sub>>]))
    THEN LET r == VertexScan(d.subs[<<lod, sub>>])[vertex_idx + 1]
         IN  VertexHandle(vertex_idx, lod, sub, d.points.recs[r.p + 1],
                          d.uv_points.recs[r.uv + 1], r.p, r.uv, r.n)
    ELSE NoVertex

get_vertices_in_subobject(d, lod, sub) ==
    IF ~HasSub(d, lod, sub) THEN <<>>
    ELSE [i \in 1..Len(VertexScan(d.subs[<<lod, sub>>])) |->
            get_vertex_in_subobject_by_idx(d, lod, sub, i - 1)]

get_vertices_count(d, lod, sub) ==
    IF HasSub(d, lod, sub) THEN d.subs[<<lod, sub>>].vcount ELSE None

set_vertices_count(d, lod, sub, vertices_count) ==
    IF HasSub(d, lod, sub)
    THEN [doc |-> [d EXCEPT !.subs[<<lod, sub>>].vcount = vertices_count], ret |-> TRUE]
    ELSE [doc |-> d, ret |-> FALSE]

\* variant: an index equal to the new slot is not moved
ShiftIdxsAbove(v, new_vertex_idx) ==
    [i \in 1..Len(v) |-> IF v[i] > new_vertex_idx THEN v[i] + 1 ELSE v[i]]

ShiftIdxs(v, new_vertex_idx) ==
    [i \in 1..Len(v) |-> IF v[i] >= new_vertex_idx THEN v[i] + 1 ELSE v[i]]

\* the loop over all trilists of the sub-object; comparing an index with a
\* new_vertex_idx of None raises TypeError
RECURSIVE ShiftOthers(_, _, _, _)
ShiftOthers(d, others, j, new_vertex_idx) ==
    IF j > Len(others) THEN [doc |-> d, exc |-> "none"]
    ELSE IF new_vertex_idx = None /\ others[j].v # <<>> THEN [doc |-> d, exc |-> "TypeError"]
    ELSE ShiftOthers(update_indexed_trilist(d, [others[j] EXCEPT !.v = ShiftIdxs(@, new_vertex_idx)]).doc,
                     others, j + 1, new_vertex_idx)

\* the final scan of add_vertex_to_subobject: the three vertex lines go after
\* vertex number new_vertex_idx - 1 of the vertices block, or, when no vertex
\* of the block has that number, two lines below the end of the block
InsertVertexLines(d, lod, sub, new_vertex_idx, rec) ==
    IF ~HasSub(d, lod, sub) THEN [doc |-> d, found |-> FALSE]
    ELSE LET s == d.subs[<<lod, sub>>]
             n == Len(s.verts)
             s1 == IF new_vertex_idx >= 1 /\ new_vertex_idx <= n
                   THEN [s EXCEPT !.verts = SubSeq(@, 1, new_vertex_idx) \o <<rec>>
                                              \o SubSeq(@, new_vertex_idx + 1, n)]
                   ELSE [s EXCEPT !.stray = <<rec>> \o @]
             d1 == [d EXCEPT !.subs[<<lod, sub>>] = s1]
         IN  [doc |-> set_vertices_count(d1, lod, sub, get_vertices_count(d, lod, sub) + 1).doc,
              found |-> TRUE]

add_vertex_to_subobject(d, lod, sub, h, point, uv_point, normal) ==
    LET a1 == add_point(d, point)
        a2 == add_uvpoint(a1.doc, uv_point)
        a3 == add_normal(a2.doc, normal)
        iv == increase_vertexset_count(a3.doc, lod, sub, h)
        new_vertex_idx == iv.ret
        h1 == [h EXCEPT !.v = ShiftIdxs(@, new_vertex_idx)]
        others == get_indexed_trilists_in_subobject(iv.doc, lod, sub)
        so == ShiftOthers(iv.doc, others, 1, new_vertex_idx)
        new_vertex == VertexHandle(new_vertex_idx, lod, sub, point, uv_point, a1.ret, a2.ret, a3.ret)
        ins == InsertVertexLines(so.doc, lod, sub, new_vertex_idx,
                                 [p |-> a1.ret, n |-> a3.ret, uv |-> a2.ret])
    IN  IF lod # h.lod \/ sub # h.sub
        THEN [doc |-> d, h |-> h, ret |-> NoVertex, exc |-> "ValueError"]
        ELSE IF new_vertex_idx = None /\ h.v # <<>>
        THEN [doc |-> iv.doc, h |-> h, ret |-> NoVertex, exc |-> "TypeError"]
        ELSE IF so.exc # "none"
        THEN [doc |-> so.doc, h |-> h1, ret |-> NoVertex, exc |-> so.exc]
        ELSE IF ins.found
        THEN [doc |-> ins.doc, h |-> h1, ret |-> new_vertex, exc |-> "none"]
        ELSE [doc |-> so.doc, h |-> h1, ret |-> NoVertex, exc |-> "none"]

\* ------------------------------------------------------ value helpers
\* np.cross / normalisation are not computed: a face normal is the unit
\* value, or zero when two of the three points coincide (norm below 1e-10)
UnitNormal == 100000

calculate_point_midpoint(point1, point2) == (point1 + point2) \div 2

calculate_uvpoint_midpoint(uv_point1, uv_point2) == (uv_point1 + uv_point2) \div 2

calculate_face_normal(point1, point2, point3) ==
    IF point1 = point2 \/ point1 = point3 \/ point2 = point3 THEN 0 ELSE UnitNormal

calculate_vertex_normal(point, connected_points) ==
    IF Len(connected_points) < 2 THEN 0
    ELSE SumSeq([i \in 1..(Len(connected_points) - 1) |->
                    calculate_face_normal(point, connected_points[i], connected_points[i + 1])])

\* ------------------------------------------------------- triangle lists
InTri(x, tri) == \E j \in 1..Len(tri) : tri[j] = x

\* [tuple(vertex_idxs[i : i + 3]) for i in range(0, len(vertex_idxs), 3)]
Triangles(v) == [t \in 1..((Len(v) + 2) \div 3) |-> Slice(v, 3 * (t - 1), 3 * t)]

\* [tri_idx for tri_idx, tri in enumerate(triangles) if hit]: hit[t] tells
\* whether triangle number t (1-based) passes the test of the comprehension
DeleteIdxs(hit) == SelectSeq([t \in 1..Len(hit) |-> t - 1], LAMBDA t : hit[t + 1])

\* del s[i * w : i * w + w] for every i of delete_idxs, last first
RECURSIVE DelSlices(_, _, _)
DelSlices(s, delete_idxs, w) ==
    IF delete_idxs = <<>> THEN s
    ELSE LET i == delete_idxs[Len(delete_idxs)]
             s1 == Slice(s, 0, i * w) \o SubSeq(s, Min(i * w + w, Len(s)) + 1, Len(s))
         IN  DelSlices(s1, SubSeq(delete_idxs, 1, Len(delete_idxs) - 1), w)

\* variant: the flags of the deleted triangles stay in the list
RemoveTrianglesKeepFlags(h, delete_idxs) ==
    [h EXCEPT !.v = DelSlices(h.v, delete_idxs, 3),
              !.n = DelSlices(h.n, delete_idxs, 2)]

RemoveTriangles(h, delete_idxs) ==
    [h EXCEPT !.v = DelSlices(h.v, delete_idxs, 3),
              !.n = DelSlices(h.n, delete_idxs, 2),
              !.f = DelSlices(h.f, delete_idxs, 1)]

\* list.index(x): 0-based position of the first occurrence
IndexOf(tri, x) == (CHOOSE j \in 1..Len(tri) : tri[j] = x /\ \A i \in 1..(j - 1) : tri[i] # x) - 1

get_connected_vertex_idxs(h, vertex) ==
    LET triangles == Triangles(h.v)
    IN  {x \in {h.v[i] : i \in 1..Len(h.v)} :
            x # vertex.idx /\ \E t \in 1..Len(triangles) :
                InTri(vertex.idx, triangles[t]) /\ InTri(x, triangles[t])}

RECURSIVE SetToSeq(_)
SetToSeq(S) ==
    IF S = {} THEN <<>>
    ELSE LET m == CHOOSE x \in S : \A y \in S : x <= y
         IN  <<m>> \o SetToSeq(S \ {m})

ScopeDiffers(a, b) == a.lod # b.lod \/ a.sub # b.sub

\* the "Split all affected triangles" loop of insert_vertex_between
RECURSIVE SplitLoop(_, _, _, _, _, _, _)
SplitLoop(d, h, triangles, t, vertex1, vertex2, new_vertex) ==
    IF t > Len(triangles) THEN [doc |-> d, h |-> h, exc |-> "none"]
    ELSE LET tri == triangles[t]
         IN  IF ~(InTri(vertex1.idx, tri) /\ InTri(vertex2.idx, tri))
             THEN SplitLoop(d, h, triangles, t + 1, vertex1, vertex2, new_vertex)
             ELSE LET rest == SelectSeq(tri, LAMBDA x : x # vertex1.idx /\ x # vertex2.idx)
                  IN  IF rest = <<>> THEN [doc |-> d, h |-> h, exc |-> "IndexError"]
                      ELSE LET vertex3_idx == rest[1]
                               vertex3 == get_vertex_in_subobject_by_idx(d, h.lod, h.sub, vertex3_idx)
                               idx1 == IndexOf(tri, vertex1.idx)
                               idx2 == IndexOf(tri, vertex2.idx)
                               ccw == (idx2 - idx1) % 3 = 1
                               new_triangle1_idxs ==
                                   IF ccw THEN <<vertex1.idx, new_vertex.idx, vertex3_idx>>
                                   ELSE <<vertex1.idx, vertex3_idx, new_vertex.idx>>
                               new_triangle2_idxs ==
                                   IF ccw THEN <<new_vertex.idx, vertex2.idx, vertex3_idx>>
                                   ELSE <<new_vertex.idx, vertex3_idx, vertex2.idx>>
                               new_normal1 ==
                                   IF ccw THEN calculate_face_normal(vertex1.point, new_vertex.point, vertex3.point)
                                   ELSE calculate_face_normal(vertex1.point, vertex3.point, new_vertex.point)
                               new_normal2 ==
                                   IF ccw THEN calculate_face_normal(new_vertex.point, vertex2.point, vertex3.point)
                                   ELSE calculate_face_normal(new_vertex.point, vertex3.point, vertex2.point)
                               n1 == add_normal(d, new_normal1)
                               n2 == add_normal(n1.doc, new_normal2)
                               h1 == [h EXCEPT !.v = @ \o new_triangle1_idxs \o new_triangle2_idxs,
                                               !.n = @ \o <<n1.ret, FaceMarker, n2.ret, FaceMarker>>,
                                               !.f = @ \o <<DefaultFlag, DefaultFlag>>]
                           IN  IF vertex3 = NoVertex
                               THEN [doc |-> d, h |-> h, exc |-> "AttributeError"]
                               ELSE SplitLoop(n2.doc, h1, triangles, t + 1, vertex1, vertex2, new_vertex)

\* "Recalculate vertex normal for the new vertex": the trilist is written
\* back, then the normal is averaged over the connected vertices
RecalcVertexNormal(up, h, new_vertex) ==
    LET conn == SetToSeq(get_connected_vertex_idxs(h, new_vertex))
        connv == [i \in 1..Len(conn) |-> get_vertex_in_subobject_by_idx(up.doc, h.lod, h.sub, conn[i])]
        new_vertex_normal == calculate_vertex_normal(new_vertex.point, [i \in 1..Len(conn) |-> connv[i].point])
    IN  IF \E i \in 1..Len(conn) : connv[i] = NoVertex
        THEN [doc |-> up.doc, h |-> h, ret |-> NoVertex, exc |-> "AttributeError"]
        ELSE [doc |-> set_normal_value(up.doc, new_vertex.nidx, new_vertex_normal).doc,
              h |-> h, ret |-> new_vertex, exc |-> "none"]

\* what follows the split loop, sp being its outcome
AfterSplit(sp, new_vertex) ==
    IF sp.exc # "none" THEN [doc |-> sp.doc, h |-> sp.h, ret |-> NoVertex, exc |-> sp.exc]
    ELSE RecalcVertexNormal(update_indexed_trilist(sp.doc, sp.h), sp.h, new_vertex)

\* what follows add_vertex_to_subobject, av being its outcome: the triangles
\* holding either end are deleted, the ones holding both are split
SplitTriangles(av, vertex1, vertex2) ==
    LET new_vertex == av.ret
        triangles == Triangles(av.h.v)
        delete_idxs == DeleteIdxs([t \in 1..Len(triangles) |->
                           InTri(vertex1.idx, triangles[t]) \/ InTri(vertex2.idx, triangles[t])])
        hd == RemoveTriangles(av.h, delete_idxs)
    IN  IF av.exc # "none" THEN av
        ELSE IF new_vertex = NoVertex THEN av
        ELSE AfterSplit(SplitLoop(av.doc, hd, triangles, 1, vertex1, vertex2, new_vertex), new_vertex)

insert_vertex_between(d, h, vertex1, vertex2) ==
    LET new_point == calculate_point_midpoint(vertex1.point, vertex2.point)
        new_uv_point == calculate_uvpoint_midpoint(vertex1.uv, vertex2.uv)
    IN  IF ScopeDiffers(vertex1, vertex2) \/ ScopeDiffers(h, vertex1) \/ ScopeDiffers(h, vertex2)
        THEN [doc |-> d, h |-> h, ret |-> NoVertex, exc |-> "ValueError"]
        ELSE SplitTriangles(add_vertex_to_subobject(d, h.lod, h.sub, h, new_point, new_uv_point, 0),
                            vertex1, vertex2)

\* variant: no face normal is added, the triangle takes the normal of vertex1
insert_triangle_between_reuses_normal(d, h, vertex1, vertex2, vertex3) ==
    LET h1 == [h EXCEPT !.v = @ \o <<vertex1.idx, vertex2.idx, vertex3.idx>>,
                        !.n = @ \o <<vertex1.nidx, FaceMarker>>,
                        !.f = Append(@, DefaultFlag)]
        up == update_indexed_trilist(d, h1)
    IN  IF ScopeDiffers(vertex1, vertex2) \/ ScopeDiffers(vertex1, vertex3)
            \/ ScopeDiffers(vertex2, vertex3) \/ ScopeDiffers(h, vertex1)
            \/ ScopeDiffers(h, vertex2) \/ ScopeDiffers(h, vertex3)
        THEN [doc |-> d, h |-> h, ret |-> FALSE, exc |-> "ValueError"]
        ELSE [doc |-> up.doc, h |-> h1, ret |-> up.ret, exc |-> "none"]

insert_triangle_between(d, h, vertex1, vertex2, vertex3) ==
    LET new_normal == calculate_face_normal(vertex1.point, vertex2.point, vertex3.point)
        an == add_normal(d, new_normal)
        h1 == [h EXCEPT !.v = @ \o <<vertex1.idx, vertex2.idx, vertex3.idx>>,
                        !.n = @ \o <<an.ret, FaceMarker>>,
                        !.f = Append(@, DefaultFlag)]
        up == update_indexed_trilist(an.doc, h1)
    IN  IF ScopeDiffers(vertex1, vertex2) \/ ScopeDiffers(vertex1, vertex3)
            \/ ScopeDiffers(vertex2, vertex3) \/ ScopeDiffers(h, vertex1)
            \/ ScopeDiffers(h, vertex2) \/ ScopeDiffers(h, vertex3)
        THEN [doc |-> d, h |-> h, ret |-> FALSE, exc |-> "ValueError"]
        ELSE [doc |-> up.doc, h |-> h1, ret |-> up.ret, exc |-> "none"]

\* variant: a triangle is taken out as soon as it holds one of the vertices
remove_triangle_between_any_vertex(d, h, vertex1, vertex2, vertex3) ==
    LET triangles == Triangles(h.v)
        delete_idxs == DeleteIdxs([t \in 1..Len(triangles) |->
                           InTri(vertex1.idx, triangles[t]) \/ InTri(vertex2.idx, triangles[t])
                           \/ InTri(vertex3.idx, triangles[t])])
        h1 == RemoveTriangles(h, delete_idxs)
        up == update_indexed_trilist(d, h1)
    IN  IF ScopeDiffers(vertex1, vertex2) \/ ScopeDiffers(vertex1, vertex3)
            \/ ScopeDiffers(vertex2, vertex3) \/ ScopeDiffers(h, vertex1)
            \/ ScopeDiffers(h, vertex2) \/ ScopeDiffers(h, vertex3)
        THEN [doc |-> d, h |-> h, ret |-> FALSE, exc |-> "ValueError"]
        ELSE [doc |-> up.doc, h |-> h1, ret |-> up.ret, exc |-> "none"]

remove_triangle_between(d, h, vertex1, vertex2, vertex3) ==
    LET triangles == Triangles(h.v)
        delete_idxs == DeleteIdxs([t \in 1..Len(triangles) |->
                           InTri(vertex1.idx, triangles[t]) /\ InTri(vertex2.idx, triangles[t])
                           /\ InTri(vertex3.idx, triangles[t])])
        h1 == RemoveTriangles(h, delete_idxs)
        up == update_indexed_trilist(d, h1)
    IN  IF ScopeDiffers(vertex1, vertex2) \/ ScopeDiffers(vertex1, vertex3)
            \/ ScopeDiffers(vertex2, vertex3) \/ ScopeDiffers(h, vertex1)
            \/ ScopeDiffers(h, vertex2) \/ ScopeDiffers(h, vertex3)
        THEN [doc |-> d, h |-> h, ret |-> FALSE, exc |-> "ValueError"]
        ELSE [doc |-> up.doc, h |-> h1, ret |-> up.ret, exc |-> "none"]

\* variant: the scope is compared after the triangles were taken out
remove_triangles_connected_to_vertex_late_check(d, h, vertex) ==
    LET triangles == Triangles(h.v)
        delete_idxs == DeleteIdxs([t \in 1..Len(triangles) |-> InTri(vertex.idx, triangles[t])])
        h1 == RemoveTriangles(h, delete_idxs)
        up == update_indexed_trilist(d, h1)
    IN  IF ScopeDiffers(h, vertex)
        THEN [doc |-> d, h |-> h1, ret |-> FALSE, exc |-> "ValueError"]
        ELSE [doc |-> up.doc, h |-> h1, ret |-> up.ret, exc |-> "none"]

\* variant: the vertex left without triangles is deleted from the vertices
remove_triangles_connected_to_vertex_drops_vertex(d, h, vertex) ==
    LET triangles == Triangles(h.v)
        delete_idxs == DeleteIdxs([t \in 1..Len(triangles) |-> InTri(vertex.idx, triangles[t])])
        h1 == RemoveTriangles(h, delete_idxs)
        up == update_indexed_trilist(d, h1)
        key == <<h.lod, h.sub>>
        gone == IF up.ret /\ vertex.idx >= 0 /\ vertex.idx < Len(up.doc.subs[key].verts)
                THEN [up.doc EXCEPT !.subs[key].verts =
                          SubSeq(@, 1, vertex.idx) \o SubSeq(@, vertex.idx + 2, Len(@)),
                                    !.subs[key].vcount = @ - 1]
                ELSE up.doc
    IN  IF ScopeDiffers(h, vertex)
        THEN [doc |-> d, h |-> h, ret |-> FALSE, exc |-> "ValueError"]
        ELSE [doc |-> gone, h |-> h1, ret |-> up.ret, exc |-> "none"]

remove_triangles_connected_to_vertex(d, h, vertex) ==
    LET triangles == Triangles(h.v)
        delete_idxs == DeleteIdxs([t \in 1..Len(triangles) |-> InTri(vertex.idx, triangles[t])])
        h1 == RemoveTriangles(h, delete_idxs)
        up == update_indexed_trilist(d, h1)
    IN  IF ScopeDiffers(h, vertex)
        THEN [doc |-> d, h |-> h, ret |-> FALSE, exc |-> "ValueError"]
        ELSE [doc |-> up.doc, h |-> h1, ret |-> up.ret, exc |-> "none"]

\* ----------------------------------------------------------------- file
\* the text of an empty file, as _read() returns it: ['']
EmptyDoc ==
    [nolines |-> FALSE,
     prim_states |-> <<>>,
     points |-> [present |-> FALSE, count |-> 0, recs |-> <<>>],
     uv_points |-> [present |-> FALSE, count |-> 0, recs |-> <<>>],
     normals |-> [present |-> FALSE, count |-> 0, recs |-> <<>>],
     subs |-> <<>>]

\* self._lines = [] of a Shapefile constructed on a compressed file
NoLines == [EmptyDoc EXCEPT !.nolines = TRUE]

\* Optional[bool]: "True", "False", or "None" for an empty file
is_compressed(f) ==
    IF f.compressed THEN "True"
    ELSE IF f.text = EmptyDoc THEN "None"
    ELSE "False"

\* File._read()
ReadFile(f) == f.text

\* '\n'.join(lines) written to the file
WriteFile(f, d) == [compressed |-> FALSE, text |-> [d EXCEPT !.nolines = FALSE]]

\* subprocess.call of ffeditc on the file: the converter rewrites the
\* container in place, or exits with a failure status that the caller never
\* looks at and leaves the file as it was (an empty file is no shape it can
\* convert)
ToolCompress(f, tool_ok) ==
    IF tool_ok /\ f.text # EmptyDoc THEN [f EXCEPT !.compressed = TRUE] ELSE f

ToolDecompress(f, tool_ok) == IF tool_ok THEN [f EXCEPT !.compressed = FALSE] ELSE f

\* variant: File.save without the compressed test in front of it
save_unguarded(d, f) == [file |-> WriteFile(f, d), exc |-> "none"]

save(d, f) ==
    IF is_compressed(f) = "True" THEN [file |-> f, exc |-> "AttributeError"]
    ELSE [file |-> WriteFile(f, d), exc |-> "none"]

compress(d, f, tool_ok) ==
    IF is_compressed(f) # "True"
    THEN [doc |-> d, file |-> ToolCompress(f, tool_ok), exc |-> "none", called |-> TRUE]
    ELSE [doc |-> d, file |-> f, exc |-> "none", called |-> FALSE]

\* after the tool ran, an empty self._lines is filled by _read(); decoding a
\* container that is still compressed raises UnicodeDecodeError
decompress(d, f, tool_ok) ==
    IF is_compressed(f) = "True"
    THEN LET f1 == ToolDecompress(f, tool_ok)
         IN  IF ~d.nolines THEN [doc |-> d, file |-> f1, exc |-> "none", called |-> TRUE]
             ELSE IF f1.compressed
             THEN [doc |-> d, file |-> f1, exc |-> "UnicodeDecodeError", called |-> TRUE]
             ELSE [doc |-> ReadFile(f1), file |-> f1, exc |-> "none", called |-> TRUE]
    ELSE [doc |-> d, file |-> f, exc |-> "none", called |-> FALSE]

\* ----------------------------------------------------- initial documents
Block(recs) == [present |-> TRUE, count |-> Len(recs), recs |-> recs]

VertexRec(i) == [p |-> i, n |-> i, uv |-> i]

TrilistLines(ps, v, n, f) ==
    [ps |-> ps, v |-> RenderLines(v, IdxChunk, Len(v)), n |-> RenderLines(n, IdxChunk, Len(v) \div 3),
     f |-> RenderLines(f, FlagChunk, Len(f))]

Lod1 == 200
Lod2 == 500

\* one vertex set; sub-object 0 holds two triangles, sub-object 1 a single one
DocSingle ==
    [nolines |-> FALSE,
     prim_states |-> <<"DB_Rail", "DB_Track2sw_top">>,
     points |-> Block(<<0, 200, 400, 600>>),
     uv_points |-> Block(<<0, 20, 40, 60>>),
     normals |-> Block(<<0, 100000, 0, 100000>>),
     subs |->
        (<<Lod1, 0>> :>
            [ginfo |-> [tris |-> 2, vtx |-> 6],
             cull |-> <<[n |-> 1, tris |-> 2, vtx |-> 6]>>,
             vcount |-> 4,
             verts |-> [i \in 1..4 |-> VertexRec(i - 1)],
             stray |-> <<>>,
             vsets |-> <<[idx |-> 0, start |-> 0, count |-> 4]>>,
             tl |-> <<TrilistLines(0, <<0, 1, 2, 0, 2, 3>>, <<0, 3, 1, 3>>, <<1, 2>>)>>])
        @@
        (<<Lod1, 1>> :>
            [ginfo |-> [tris |-> 1, vtx |-> 3],
             cull |-> <<[n |-> 1, tris |-> 1, vtx |-> 3]>>,
             vcount |-> 3,
             verts |-> [i \in 1..3 |-> VertexRec(i - 1)],
             stray |-> <<>>,
             vsets |-> <<[idx |-> 0, start |-> 0, count |-> 3]>>,
             tl |-> <<TrilistLines(0, <<0, 1, 2>>, <<2, 3>>, <<1>>)>>])]

\* two geometry nodes / vertex sets; the trilists of prim_state 0 are not
\* adjacent in the document
DocMulti ==
    [nolines |-> FALSE,
     prim_states |-> <<"DB_Rail", "DB_Track2sw_top">>,
     points |-> Block(<<0, 200, 400, 600, 800, 1000>>),
     uv_points |-> Block(<<0, 20, 40, 60, 80, 100>>),
     normals |-> Block(<<0, 100000, 0, 100000, 0, 100000>>),
     subs |->
        (<<Lod1, 0>> :>
            [ginfo |-> [tris |-> 4, vtx |-> 12],
             cull |-> <<[n |-> 2, tris |-> 3, vtx |-> 9], [n |-> 1, tris |-> 1, vtx |-> 3]>>,
             vcount |-> 6,
             verts |-> [i \in 1..6 |-> VertexRec(i - 1)],
             stray |-> <<>>,
             vsets |-> <<[idx |-> 0, start |-> 0, count |-> 3], [idx |-> 1, start |-> 3, count |-> 3]>>,
             tl |-> <<TrilistLines(0, <<0, 1, 2>>, <<0, 3>>, <<1>>),
                      TrilistLines(1, <<0, 1, 2, 0, 2, 1>>, <<1, 3, 2, 3>>, <<1, 2>>),
                      TrilistLines(0, <<3, 4, 5>>, <<3, 3>>, <<1>>)>>])]

\* handles the client took from another shape file (another LOD level)
ForeignTrilist == TrilistHandle(0, Lod2, 0, 0, <<0, 1, 2>>, <<0, 3>>, <<1>>)

ForeignVertex == VertexHandle(0, Lod2, 0, 200, 20, 0, 0, 0)

\* the handles a client holds after reading the document
HandlesOf(d) ==
    <<ForeignTrilist>> \o get_indexed_trilists_in_subobject(d, Lod1, 0)
                       \o get_indexed_trilists_in_subobject(d, Lod1, 1)

VerticesOf(d) ==
    <<ForeignVertex>> \o get_vertices_in_subobject(d, Lod1, 0)
                      \o Slice(get_vertices_in_subobject(d, Lod1, 1), 0, 2)

InitDocs == {DocSingle, DocMulti}

\* ------------------------------------------------ Trackcenter geometry
\* class Point, with to_numpy / from_numpy (an ndarray of shape (3,) is a
\* triple); class Trackcenter (centerpoints is an ndarray of shape (N, 3))
Point(x, y, z) == [x |-> x, y |-> y, z |-> z]

NoPoint == [x |-> None, y |-> None, z |-> None]

to_numpy(p) == <<p.x, p.y, p.z>>

from_numpy(array) == Point(array[1], array[2], array[3])

Trackcenter(centerpoints) == [centerpoints |-> centerpoints]

\* np.linalg.norm(a - b) of two pairs, squared: the square root is
\* monotone, so the order and the ties of the distances are those of
\* their squares
norm2(a, b) == (a[1] - b[1]) * (a[1] - b[1]) + (a[2] - b[2]) * (a[2] - b[2])

\* the scan of np.argmin with the last of the smallest values winning
RECURSIVE argmin_last(_, _, _)
argmin_last(distances, i, best) ==
    IF i > Len(distances) THEN best
    ELSE argmin_last(distances, i + 1, IF distances[i] <= distances[best] THEN i ELSE best)

\* np.argmin: the index of the first occurrence of the smallest value
RECURSIVE argmin(_, _, _)
argmin(distances, i, best) ==
    IF i > Len(distances) THEN best
    ELSE argmin(distances, i + 1, IF distances[i] < distances[best] THEN i ELSE best)

\* columns [0, 2] and [0, 1] of the source, counted from 1
PlaneColumns(plane) == IF plane = "xz" THEN <<1, 3>> ELSE <<1, 2>>

\* find_closest_centerpoint: ret is the Point returned, idx the position
\* (from 0) argmin chose; an unknown plane token raises ValueError, and so
\* does np.argmin on an empty sequence of distances
find_closest_centerpoint(point_along_track, trackcenter, plane) ==
    LET point == to_numpy(point_along_track)
        centerpoints == trackcenter.centerpoints
        cols == PlaneColumns(plane)
        centerpoints_2d == [i \in 1..Len(centerpoints) |->
                               <<centerpoints[i][cols[1]], centerpoints[i][cols[2]]>>]
        point_2d == <<point[cols[1]], point[cols[2]]>>
        distances == [i \in 1..Len(centerpoints) |-> norm2(centerpoints_2d[i], point_2d)]
        closest_index == argmin(distances, 1, 1)
    IN  IF plane \notin {"xz", "xy"}
        THEN [ret |-> NoPoint, exc |-> "ValueError", idx |-> None]
        ELSE IF Len(distances) = 0
        THEN [ret |-> NoPoint, exc |-> "ValueError", idx |-> None]
        ELSE [ret |-> from_numpy(centerpoints[closest_index]), exc |-> "none",
              idx |-> closest_index - 1]

\* no query put yet
NoQuery == [point |-> NoPoint, trackcenter |-> Trackcenter(<<>>), plane |-> "xz", ret |-> NoPoint]

\* A float result is kept as sign * sqrt(sq): sign is the np.sign factor
\* of the source, sq the square of the norm it takes
Float(sign, sq) == [sign |-> sign, sq |-> sq]

NoFloat == Float(0, None)

\* the square of the absolute value of a float result
Magnitude2(f) == IF f.sign = 0 THEN 0 ELSE f.sq

\* np.sign
sign(x) == IF x > 0 THEN 1 ELSE IF x < 0 THEN 0 - 1 ELSE 0

\* np.cross of two triples
cross(a, b) ==
    <<a[2] * b[3] - a[3] * b[2], a[3] * b[1] - a[1] * b[3], a[1] * b[2] - a[2] * b[1]>>

\* point1_proj / point2_proj: the coordinates off the plane are zero
point_proj(p, plane) ==
    <<IF plane \in {"x", "xy", "xz", "xyz"} THEN p[1] ELSE 0,
      IF plane \in {"y", "xy", "zy", "xyz"} THEN p[2] ELSE 0,
      IF plane \in {"z", "xz", "zy", "xyz"} THEN p[3] ELSE 0>>

reference_vector(plane) == IF plane \in {"x", "xz"} THEN <<0, 1, 0>> ELSE <<1, 0, 0>>

\* signed_distance_between: np.linalg.norm(vector_to_point[:2]) times
\* np.sign(cross[-1]); "xyz" returns the norm of the difference; any other
\* token raises ValueError
signed_distance_between(point1, point2, plane) ==
    LET p1 == point_proj(to_numpy(point1), plane)
        p2 == point_proj(to_numpy(point2), plane)
        vector_to_point == <<p1[1] - p2[1], p1[2] - p2[2], p1[3] - p2[3]>>
        c == cross(reference_vector(plane), vector_to_point)
        norm3 == vector_to_point[1] * vector_to_point[1] + vector_to_point[2] * vector_to_point[2]
                    + vector_to_point[3] * vector_to_point[3]
        norm == vector_to_point[1] * vector_to_point[1] + vector_to_point[2] * vector_to_point[2]
    IN  IF plane = "xyz" THEN [ret |-> Float(sign(norm3), norm3), exc |-> "none"]
        ELSE IF plane \notin {"x", "y", "z", "xy", "xz", "zy"}
        THEN [ret |-> NoFloat, exc |-> "ValueError"]
        ELSE [ret |-> Float(sign(c[3]) * sign(norm), norm), exc |-> "none"]

\* distance_between: abs(signed_distance)
distance_between(point1, point2, plane) ==
    LET r == signed_distance_between(point1, point2, plane)
    IN  IF r.exc # "none" THEN r
        ELSE [ret |-> Float(r.ret.sign * r.ret.sign, r.ret.sq), exc |-> "none"]

\* closest_trackcenter = None
NoTrackcenter == [centerpoints |-> None]

\* the loop of find_closest_trackcenter: inf tells that min_distance is
\* still float('inf'), min2 is the square of min_distance otherwise
RECURSIVE ClosestLoop(_, _, _, _, _, _, _)
ClosestLoop(point_along_track, trackcenters, plane, i, closest_trackcenter, inf, min2) ==
    IF i > Len(trackcenters) THEN [ret |-> closest_trackcenter, exc |-> "none"]
    ELSE LET tc == trackcenters[i]
             c == find_closest_centerpoint(point_along_track, tc, plane)
             d == distance_between(point_along_track, c.ret, plane)
             distance2 == Magnitude2(d.ret)
         IN  IF c.exc # "none" THEN [ret |-> NoTrackcenter, exc |-> c.exc]
             ELSE IF d.exc # "none" THEN [ret |-> NoTrackcenter, exc |-> d.exc]
             ELSE IF inf \/ distance2 < min2
             THEN ClosestLoop(point_along_track, trackcenters, plane, i + 1, tc, FALSE, distance2)
             ELSE ClosestLoop(point_along_track, trackcenters, plane, i + 1,
                              closest_trackcenter, inf, min2)

find_closest_trackcenter(point_along_track, trackcenters, plane) ==
    ClosestLoop(point_along_track, trackcenters, plane, 1, NoTrackcenter, TRUE, 0)

\* ---------------------------------------------------- section generators
\* np.sin and np.cos are kept in thousandths, for the angles the sections
\* of the model use: whole multiples of 5 degrees (np.radians is folded
\* into the table)
TrigScale == 1000

SinTable ==
    <<0, 87, 174, 259, 342, 423, 500, 574, 643, 707, 766, 819, 866, 906, 940, 966, 985,
      996, 1000>>

sin(deg) ==
    LET d == deg % 360
    IN  IF d <= 90 THEN SinTable[(d \div 5) + 1]
        ELSE IF d <= 180 THEN SinTable[((180 - d) \div 5) + 1]
        ELSE IF d <= 270 THEN 0 - SinTable[((d - 180) \div 5) + 1]
        ELSE 0 - SinTable[((360 - d) \div 5) + 1]

cos(deg) == sin(deg + 90)

\* value i (from 1) of np.linspace(start, stop, num): both ends are
\* members, the values between are rounded down to the grid
linspace(start, stop, num, i) ==
    IF num = 1 THEN start ELSE start + ((stop - start) * (i - 1)) \div (num - 1)

generate_empty_centerpoints == Trackcenter(<<>>)

\* row i of np.vstack((x_rotated, y, z_rotated)).T, with x = start_point.x
\* and y = start_point.y in every row
StraightRow(x, y, z, start_angle, start_point) ==
    <<start_point.x + (x * cos(start_angle) - z * sin(start_angle)) \div TrigScale,
      y,
      start_point.z + (x * sin(start_angle) + z * cos(start_angle)) \div TrigScale>>

generate_straight_centerpoints(length, num_points, start_angle, start_point) ==
    Trackcenter([i \in 1..num_points |->
        StraightRow(start_point.x, start_point.y,
                    linspace(start_point.z, start_point.z + length, num_points, i),
                    start_angle, start_point)])

Abs(x) == IF x < 0 THEN 0 - x ELSE x

\* row i of np.vstack((x, y, z)).T for the angle theta
CurveRow(theta, direction, curve_radius, start_point) ==
    <<start_point.x + (direction * curve_radius * (TrigScale - cos(theta))) \div TrigScale,
      start_point.y,
      start_point.z + (curve_radius * sin(theta)) \div TrigScale>>

generate_curve_centerpoints(curve_radius, curve_angle, num_points, start_angle, start_point) ==
    Trackcenter([i \in 1..num_points |->
        CurveRow(linspace(start_angle, start_angle + Abs(curve_angle), num_points, i),
                 IF curve_angle < 0 THEN 0 - 1 ELSE 1, curve_radius, start_point)])

\* variant: the other Trackcenter's samples come first
Trackcenter_add_prepends(self, other) == Trackcenter(other.centerpoints \o self.centerpoints)

\* Trackcenter.__add__: np.vstack
Trackcenter_add(self, other) == Trackcenter(self.centerpoints \o other.centerpoints)

\* ---------------------------------------------- the track section database
\* distance_along_curve, in thousandths: math.radians multiplies by
\* pi / 180, with pi taken as 355 / 113
distance_along_curve(curve_angle, curve_radius) ==
    Abs(curve_radius * curve_angle * 355 * TrigScale) \div (113 * 180)

Max(a, b) == IF a > b THEN a ELSE b

\* a TrackSection: length is the second number of SectionSize, radius and
\* angle the numbers of SectionCurve, None without that line
TrackSection(length, radius, angle) == [length |-> length, radius |-> radius, angle |-> angle]

\* a SectionIdx line: start position, start angle, TrackSection numbers
SectionIdx(start, start_angle, tracksection_idxs) ==
    [start |-> start, start_angle |-> start_angle, tracksection_idxs |-> tracksection_idxs]

\* the loop over the TrackSections of one SectionIdx line (idxs is its
\* tracksection_idxs)
RECURSIVE SectionLoop(_, _, _, _, _, _, _)
SectionLoop(sections, idxs, k, num_points_per_meter, current_path_point, current_path_angle, trackcenter) ==
    IF k > Len(idxs) THEN [ret |-> trackcenter, exc |-> "none"]
    ELSE IF idxs[k] \notin DOMAIN sections
    THEN [ret |-> trackcenter, exc |-> "ValueError"]
    ELSE LET m == sections[idxs[k]]
             curve == m.radius # None /\ m.angle # None
             num_points ==
                 IF curve
                 THEN Max((distance_along_curve(m.angle, m.radius) * num_points_per_meter)
                             \div TrigScale, 10)
                 ELSE Max(m.length * num_points_per_meter, 10)
             section_trackcenter ==
                 IF curve
                 THEN generate_curve_centerpoints(m.radius, m.angle, num_points,
                                                  current_path_angle, current_path_point)
                 ELSE generate_straight_centerpoints(m.length, num_points,
                                                     current_path_angle, current_path_point)
             section_endpoint == from_numpy(section_trackcenter.centerpoints[num_points])
         IN  SectionLoop(sections, idxs, k + 1, num_points_per_meter,
                         Point(section_endpoint.x, current_path_point.y, section_endpoint.z),
                         IF curve THEN current_path_angle + m.angle ELSE current_path_angle,
                         Trackcenter_add(trackcenter, section_trackcenter))

\* the loop over the SectionIdx lines of the TrackShape
RECURSIVE SectionIdxLoop(_, _, _, _, _, _)
SectionIdxLoop(sections, section_idxs, r, num_points_per_meter, start_offset, trackcenters) ==
    IF r > Len(section_idxs) THEN [ret |-> trackcenters, exc |-> "none"]
    ELSE LET values == section_idxs[r]
             t == SectionLoop(sections, values.tracksection_idxs, 1, num_points_per_meter,
                              Point(values.start[1] + start_offset.x,
                                    values.start[2] + start_offset.y,
                                    values.start[3] + start_offset.z),
                              values.start_angle, generate_empty_centerpoints)
         IN  IF t.exc # "none" THEN [ret |-> <<>>, exc |-> t.exc]
             ELSE SectionIdxLoop(sections, section_idxs, r + 1, num_points_per_meter,
                                 start_offset, Append(trackcenters, t.ret))

\* generate_trackcenters_from_tsection on the parsed text of the file:
\* local tells that it holds a TrackPath, shapes are its TrackShape blocks
\* (FileName and SectionIdx lines), sections its TrackSection blocks
generate_trackcenters_from_tsection(shape_name, tsection, num_points_per_meter, start_offset) ==
    LET hits == {i \in 1..Len(tsection.shapes) : tsection.shapes[i].FileName = shape_name}
        first == CHOOSE i \in hits : \A j \in hits : i <= j
    IN  IF tsection.local THEN [ret |-> <<>>, exc |-> "ValueError"]
        ELSE IF hits = {} THEN [ret |-> <<>>, exc |-> "ValueError"]
        ELSE SectionIdxLoop(tsection.sections, tsection.shapes[first].section_idxs, 1,
                            num_points_per_meter, start_offset, <<>>)

\* ------------------------------------------------ distance along a track
\* np.linalg.norm of the difference of two pairs whose distance is a whole
\* number
norm(a, b) == CHOOSE k \in 0..norm2(a, b) : k * k = norm2(a, b)

\* tree.query(point): the position (from 1) of a sample nearest to the
\* point; which one of several equally near samples the KDTree reports is
\* not defined
NearestSamples(xz, point) ==
    {i \in 1..Len(xz) : \A j \in 1..Len(xz) : norm2(xz[i], point) <= norm2(xz[j], point)}

\* tree.query_ball_point(x, r): the samples within r of sample i
query_ball_point(xz, i, r) == {j \in 1..Len(xz) : norm2(xz[i], xz[j]) <= r * r}

\* variant: a neighbour at the same distance to the start counts as closer
all_farther(ds, neighbors, current_index) == \A n \in neighbors : ds[n] > ds[current_index]

\* all(distances_to_start[neighbor] >= distance_to_start for neighbor in ...)
all_not_closer(ds, neighbors, current_index) == \A n \in neighbors : ds[n] >= ds[current_index]

\* heapq.heappop: the least (total_distance, index) tuple
heappop(queue) ==
    CHOOSE q \in queue : \A o \in queue : q[1] < o[1] \/ (q[1] = o[1] /\ q[2] <= o[2])

\* the while loop: queue holds the tuples of the heap (a tuple pushed twice
\* is popped twice and skipped the second time), ds the squares of
\* distances_to_start; at is the sample the search returned at
RECURSIVE SearchLoop(_, _, _, _, _)
SearchLoop(queue, visited, xz, ds, r) ==
    IF queue = {} THEN [ret |-> 0, at |-> None, fallback |-> TRUE]
    ELSE LET top == heappop(queue)
             total_distance == top[1]
             current_index == top[2]
             neighbors == query_ball_point(xz, current_index, r)
         IN  IF current_index \in visited
             THEN SearchLoop(queue \ {top}, visited, xz, ds, r)
             ELSE IF all_not_closer(ds, neighbors, current_index)
             THEN [ret |-> total_distance, at |-> current_index, fallback |-> FALSE]
             ELSE SearchLoop((queue \ {top}) \cup
                                {<<total_distance + norm(xz[current_index], xz[n]), n>> :
                                    n \in neighbors \ (visited \cup {current_index})},
                             visited \cup {current_index}, xz, ds, r)

\* distance_along_trackcenter from the sample end_idx that tree.query gave
distance_along_trackcenter(end_idx, trackcenter, start_point, max_neighbor_dist) ==
    LET centerpoints_xz == [i \in 1..Len(trackcenter.centerpoints) |->
                               <<trackcenter.centerpoints[i][1], trackcenter.centerpoints[i][3]>>]
        start_point_np == <<start_point.x, start_point.z>>
        distances_to_start == [i \in 1..Len(centerpoints_xz) |->
                                  norm2(centerpoints_xz[i], start_point_np)]
    IN  SearchLoop({<<0, end_idx>>}, {}, centerpoints_xz, distances_to_start, max_neighbor_dist)

\* ------------------------------------------- a new position beside a track
\* tangent_vector of the spline at the sample nearest to closest_center,
\* with its y set to 0 and normalised: the Trackcenters of the model lie on
\* a line parallel to the x or the z axis, and the spline through such
\* samples is that line
tangent_vector(centerpoints) ==
    <<sign(centerpoints[Len(centerpoints)][1] - centerpoints[1][1]), 0,
      sign(centerpoints[Len(centerpoints)][3] - centerpoints[1][3])>>

\* get_new_position_from_trackcenter: splprep fits a cubic and raises
\* TypeError on fewer than four samples
get_new_position_from_trackcenter(new_signed_distance, original_point, trackcenter) ==
    LET centerpoints == trackcenter.centerpoints
        c == find_closest_centerpoint(original_point, trackcenter, "xz")
        closest_center == to_numpy(c.ret)
        lateral_vector == <<0 - tangent_vector(centerpoints)[3], 0, tangent_vector(centerpoints)[1]>>
    IN  IF c.exc # "none" THEN [ret |-> NoPoint, exc |-> c.exc]
        ELSE IF Len(centerpoints) < 4 THEN [ret |-> NoPoint, exc |-> "TypeError"]
        ELSE [ret |-> from_numpy(<<closest_center[1] + new_signed_distance * lateral_vector[1],
                                   closest_center[2] + new_signed_distance * lateral_vector[2],
                                   closest_center[3] + new_signed_distance * lateral_vector[3]>>),
              exc |-> "none"]


Vals == {20, 12346}

Result(op, args, exc, ok, idx) ==
    [op |-> op, args |-> args, exc |-> exc, ok |-> ok, idx |-> idx]

Init ==
    \/ \E d \in InitDocs :
          /\ lines = d
          /\ file = [compressed |-> FALSE, text |-> d]
          /\ th = HandlesOf(d)
          /\ vh = VerticesOf(d)
          /\ last = Result("load", <<>>, "none", TRUE, None)
          /\ nops = 0
          /\ geo = NoQuery
    \/ /\ lines = NoLines
       /\ file = [compressed |-> TRUE, text |-> DocSingle]
       /\ th = <<ForeignTrilist>>
       /\ vh = <<ForeignVertex>>
       /\ last = Result("load", <<>>, "none", TRUE, None)
       /\ nops = 0
       /\ geo = NoQuery
    \/ /\ lines = EmptyDoc
       /\ file = [compressed |-> FALSE, text |-> EmptyDoc]
       /\ th = <<ForeignTrilist>>
       /\ vh = <<ForeignVertex>>
       /\ last = Result("load", <<>>, "none", TRUE, None)
       /\ nops = 0
       /\ geo = NoQuery

Compressed == is_compressed(file) = "True"

\* ---------------------------------------------------------------- inputs
\* argument tuples are positions in th (first component) and vh
IvbArgs ==
    {<<2, 2, 3>>, <<2, 3, 2>>, <<2, 3, 4>>, <<2, 2, 5>>, <<4, 2, 3>>, <<2, 5, 6>>,
     <<3, 6, 7>>, <<3, 7, 6>>, <<1, 2, 3>>, <<2, 1, 3>>, <<2, 3, 1>>, <<1, 1, 1>>}

TriArgs ==
    {<<2, 2, 3, 4>>, <<2, 4, 3, 2>>, <<2, 3, 4, 5>>, <<2, 3, 3, 4>>, <<4, 2, 3, 4>>,
     <<2, 2, 3, 8>>, <<3, 6, 7, 6>>, <<1, 2, 3, 4>>, <<2, 1, 3, 4>>, <<2, 2, 1, 4>>,
     <<2, 2, 3, 1>>, <<2, 2, 3, 6>>, <<1, 1, 1, 1>>}

RtcArgs ==
    {<<2, 2>>, <<2, 3>>, <<2, 5>>, <<4, 2>>, <<3, 6>>, <<2, 8>>, <<1, 2>>, <<2, 1>>,
     <<2, 6>>, <<1, 1>>}

AddVertexScopes == {<<Lod1, 0>>, <<Lod1, 1>>, <<Lod2, 0>>}

ValidArgs(args) ==
    /\ args[1] <= Len(th)
    /\ \A j \in 2..Len(args) : args[j] <= Len(vh)

\* --------------------------------------------------------------- actions
Step == nops < MaxOps /\ nops' = nops + 1 /\ UNCHANGED geo

\* reading the lines property
ReadLines ==
    /\ Step
    /\ last' = IF Compressed THEN Result("lines", <<>>, "AttributeError", FALSE, None)
               ELSE Result("lines", <<>>, "none", TRUE, None)
    /\ UNCHANGED <<lines, file, th, vh>>

Save ==
    /\ Step
    /\ LET r == save(lines, file)
       IN  /\ file' = r.file
           /\ last' = Result("save", <<>>, r.exc, r.exc = "none", None)
    /\ UNCHANGED <<lines, th, vh>>

Compress(tool_ok) ==
    /\ Step
    /\ LET r == compress(lines, file, tool_ok)
       IN  /\ file' = r.file
           /\ lines' = r.doc
           /\ last' = Result("compress", <<>>, r.exc, r.called, None)
    /\ UNCHANGED <<th, vh>>

Decompress(tool_ok) ==
    /\ Step
    /\ LET r == decompress(lines, file, tool_ok)
       IN  /\ file' = r.file
           /\ lines' = r.doc
           /\ last' = Result("decompress", <<>>, r.exc, r.called, None)
    /\ UNCHANGED <<th, vh>>

\* the client reads its handles again
Refresh ==
    /\ Step
    /\ IF Compressed
       THEN /\ last' = Result("refresh", <<>>, "AttributeError", FALSE, None)
            /\ UNCHANGED <<th, vh>>
       ELSE /\ th' = HandlesOf(lines)
            /\ vh' = VerticesOf(lines)
            /\ last' = Result("refresh", <<>>, "none", TRUE, None)
    /\ UNCHANGED <<lines, file>>

\* an operation on the three record collections: r is its result on lines
BlockOp(op, args, doc, ok, idx) ==
    /\ Step
    /\ IF Compressed
       THEN /\ lines' = lines
            /\ last' = Result(op, args, "AttributeError", FALSE, None)
       ELSE /\ lines' = doc
            /\ last' = Result(op, args, "none", ok, idx)
    /\ UNCHANGED <<file, th, vh>>

AddPoint(val) ==
    LET r == add_point(lines, val) IN BlockOp("add_point", <<val>>, r.doc, r.ret # None, r.ret)

AddUvPoint(val) ==
    LET r == add_uvpoint(lines, val) IN BlockOp("add_uvpoint", <<val>>, r.doc, r.ret # None, r.ret)

AddNormal(val) ==
    LET r == add_normal(lines, val) IN BlockOp("add_normal", <<val>>, r.doc, r.ret # None, r.ret)

SetPointValue(i, val) ==
    LET r == set_point_value(lines, i, val)
    IN  BlockOp("set_point_value", <<i, val>>, r.doc, r.ret, None)

SetUvPointValue(i, val) ==
    LET r == set_uvpoint_value(lines, i, val)
    IN  BlockOp("set_uvpoint_value", <<i, val>>, r.doc, r.ret, None)

SetNormalValue(i, val) ==
    LET r == set_normal_value(lines, i, val)
    IN  BlockOp("set_normal_value", <<i, val>>, r.doc, r.ret, None)

\* an operation on a trilist handle: r is its result on lines and th[i];
\* a compressed document raises on the first read of self.lines, which
\* the remove operations reach after they edited the handle
TrilistOp(op, args, r, ok, handle_first) ==
    /\ Step
    /\ LET i == args[1]
           denied == Compressed /\ r.exc # "ValueError"
       IN  /\ lines' = IF denied THEN lines ELSE r.doc
           /\ th' = IF denied /\ ~handle_first THEN th ELSE [th EXCEPT ![i] = r.h]
           /\ last' = IF denied THEN Result(op, args, "AttributeError", FALSE, None)
                      ELSE Result(op, args, r.exc, ok, None)
    /\ UNCHANGED <<file, vh>>

\* an operation that returns a Vertex, which the client keeps
VertexOp(op, args, i, r) ==
    /\ Step
    /\ LET denied == Compressed /\ r.exc # "ValueError"
           got == ~denied /\ r.exc = "none" /\ r.ret # NoVertex
       IN  /\ lines' = IF denied THEN lines ELSE r.doc
           /\ th' = IF denied THEN th ELSE [th EXCEPT ![i] = r.h]
           /\ vh' = IF got THEN Append(vh, r.ret) ELSE vh
           /\ last' = IF denied THEN Result(op, args, "AttributeError", FALSE, None)
                      ELSE Result(op, args, r.exc, got, IF got THEN r.ret.idx ELSE None)
    /\ UNCHANGED file

AddVertexToSubobject(lod, sub, i, val) ==
    VertexOp("add_vertex_to_subobject", <<lod, sub, i, val>>, i,
             add_vertex_to_subobject(lines, lod, sub, th[i], val, 20, 0))

InsertVertexBetween(i, a, b) ==
    VertexOp("insert_vertex_between", <<i, a, b>>, i,
             insert_vertex_between(lines, th[i], vh[a], vh[b]))

InsertTriangleBetween(i, a, b, c) ==
    LET r == insert_triangle_between(lines, th[i], vh[a], vh[b], vh[c])
    IN  TrilistOp("insert_triangle_between", <<i, a, b, c>>, r, r.exc = "none" /\ r.ret, FALSE)

RemoveTriangleBetween(i, a, b, c) ==
    LET r == remove_triangle_between(lines, th[i], vh[a], vh[b], vh[c])
    IN  TrilistOp("remove_triangle_between", <<i, a, b, c>>, r, r.exc = "none" /\ r.ret, TRUE)

RemoveTrianglesConnectedToVertex(i, a) ==
    LET r == remove_triangles_connected_to_vertex(lines, th[i], vh[a])
    IN  TrilistOp("remove_triangles_connected_to_vertex", <<i, a>>, r, r.exc = "none" /\ r.ret, TRUE)

Next ==
    \/ ReadLines
    \/ Save
    \/ \E ok \in BOOLEAN : Compress(ok)
    \/ \E ok \in BOOLEAN : Decompress(ok)
    \/ Refresh
    \/ \E val \in Vals : AddPoint(val)
    \/ \E val \in Vals : AddUvPoint(val)
    \/ \E val \in Vals : AddNormal(val)
    \/ \E i \in {0, Len(lines.points.recs)}, val \in Vals : SetPointValue(i, val)
    \/ \E i \in {0, Len(lines.uv_points.recs)}, val \in Vals : SetUvPointValue(i, val)
    \/ \E i \in {0, Len(lines.normals.recs)}, val \in Vals : SetNormalValue(i, val)
    \/ \E sc \in AddVertexScopes, i \in 1..Len(th) : AddVertexToSubobject(sc[1], sc[2], i, 12346)
    \/ \E args \in IvbArgs : ValidArgs(args) /\ InsertVertexBetween(args[1], args[2], args[3])
    \/ \E args \in TriArgs : ValidArgs(args) /\ InsertTriangleBetween(args[1], args[2], args[3], args[4])
    \/ \E args \in TriArgs : ValidArgs(args) /\ RemoveTriangleBetween(args[1], args[2], args[3], args[4])
    \/ \E args \in RtcArgs : ValidArgs(args) /\ RemoveTrianglesConnectedToVertex(args[1], args[2])

Spec == Init /\ [][Next]_vars

\* ------------------------------------- the serialization primitive alone
\* a handle whose trilist occurrence index no trilist of the sub-object has
MissingTrilist == TrilistHandle(5, Lod1, 0, 0, <<0, 1, 2>>, <<0, 3>>, <<1>>)

\* triangle counts a client gives a trilist: none, one line per list, a full
\* line of flags, and two or three lines per list
TriCounts == {0, 1, 66, 100, 132}

\* the lists of an IndexedTrilist assigned by the client
FilledTrilist(h, tris) ==
    [h EXCEPT !.v = [j \in 1..(3 * tris) |-> (j - 1) % 3],
              !.n = [j \in 1..(2 * tris) |-> IF j % 2 = 1 THEN ((j - 1) \div 2) % 4 ELSE FaceMarker],
              !.f = [j \in 1..tris |-> j % 3]]

SetTrilist(i, tris) ==
    /\ Step
    /\ th' = [th EXCEPT ![i] = FilledTrilist(th[i], tris)]
    /\ last' = Result("set_trilist", <<i, tris>>, "none", TRUE, None)
    /\ UNCHANGED <<lines, file, vh>>

UpdateIndexedTrilist(i) ==
    /\ Step
    /\ IF Compressed
       THEN /\ lines' = lines
            /\ last' = Result("update_indexed_trilist", <<i>>, "AttributeError", FALSE, None)
       ELSE LET r == update_indexed_trilist(lines, th[i])
            IN  /\ lines' = r.doc
                /\ last' = Result("update_indexed_trilist", <<i>>, "none", r.ret, None)
    /\ UNCHANGED <<file, th, vh>>

InitTrilist ==
    \E d \in InitDocs :
        /\ lines = d
        /\ file = [compressed |-> FALSE, text |-> d]
        /\ th = HandlesOf(d) \o <<MissingTrilist>>
        /\ vh = VerticesOf(d)
        /\ last = Result("load", <<>>, "none", TRUE, None)
        /\ nops = 0
        /\ geo = NoQuery

NextTrilist ==
    \/ \E i \in 1..Len(th), tris \in TriCounts : SetTrilist(i, tris)
    \/ \E i \in 1..Len(th) : UpdateIndexedTrilist(i)
    \/ Refresh

SpecTrilist == InitTrilist /\ [][NextTrilist]_vars

\* ------------------------------------------------------ the lookups alone
\* names a client asks for: one the documents have, one they do not
QueryNames == <<"DB_Rail", "NoSuchState">>

QueryScopes == {<<Lod1, 0>>, <<Lod1, 1>>, <<Lod2, 0>>}

\* a lookup: the document is read and nothing is written; idx records the
\* value, index or list length returned
Lookup(op, args, exc, found, idx) ==
    /\ Step
    /\ last' = IF Compressed THEN Result(op, args, "AttributeError", FALSE, None)
               ELSE Result(op, args, exc, found, idx)
    /\ UNCHANGED <<lines, file, th, vh>>

GetPointByIdx(i) ==
    LET r == get_point_by_idx(lines, i) IN Lookup("get_point_by_idx", <<i>>, "none", r # None, r)

GetUvPointByIdx(i) ==
    LET r == get_uvpoint_by_idx(lines, i) IN Lookup("get_uvpoint_by_idx", <<i>>, "none", r # None, r)

GetNormalByIdx(i) ==
    LET r == get_normal_by_idx(lines, i) IN Lookup("get_normal_by_idx", <<i>>, "none", r # None, r)

GetPrimStateByIdx(i) ==
    LET r == get_prim_state_by_idx(lines, i)
    IN  Lookup("get_prim_state_by_idx", <<i>>, "none", r # NoPrimState, r.idx)

GetPrimStatesByName(k) ==
    LET r == get_prim_states_by_name(lines, QueryNames[k])
    IN  Lookup("get_prim_states_by_name", <<k>>, "none", r # <<>>, Len(r))

GetVertexInSubobjectByIdx(lod, sub, i) ==
    LET r == get_vertex_in_subobject_by_idx(lines, lod, sub, i)
    IN  Lookup("get_vertex_in_subobject_by_idx", <<lod, sub, i>>, "none", r # NoVertex, r.idx)

GetIndexedTrilistsInSubobjectByPrimState(lod, sub, ps) ==
    LET r == get_indexed_trilists_in_subobject_by_prim_state(lines, lod, sub, PrimState(ps, ""))
    IN  Lookup("get_indexed_trilists_in_subobject_by_prim_state", <<lod, sub, ps>>, r.exc,
               r.ret # <<>>, Len(r.ret))

NextQuery ==
    \/ \E i \in {0, Len(lines.points.recs)} : GetPointByIdx(i)
    \/ \E i \in {0, Len(lines.uv_points.recs)} : GetUvPointByIdx(i)
    \/ \E i \in {None, Len(lines.normals.recs)} : GetNormalByIdx(i)
    \/ \E i \in {1, Len(lines.prim_states)} : GetPrimStateByIdx(i)
    \/ \E k \in 1..Len(QueryNames) : GetPrimStatesByName(k)
    \/ \E sc \in QueryScopes, i \in {0, 6} : GetVertexInSubobjectByIdx(sc[1], sc[2], i)
    \/ \E sc \in QueryScopes, ps \in {0, 1} : GetIndexedTrilistsInSubobjectByPrimState(sc[1], sc[2], ps)
    \/ \E sc \in AddVertexScopes, i \in 1..Len(th) : AddVertexToSubobject(sc[1], sc[2], i, 12346)

SpecQuery == Init /\ [][NextQuery]_vars

\* ------------------------------------------- closest centerpoint alone
\* samples per Trackcenter
MaxSamples == 2

\* coordinates of the query point and of the samples
Coords == {0, 1}

Rows == {<<x, y, z>> : x \in Coords, y \in Coords, z \in Coords}

RECURSIVE SeqsUpTo(_, _)
SeqsUpTo(S, n) ==
    IF n = 0 THEN {<<>>}
    ELSE LET shorter == SeqsUpTo(S, n - 1)
         IN  shorter \cup {Append(q, e) : q \in {r \in shorter : Len(r) = n - 1}, e \in S}

Planes == {"xz", "xy", "yz"}

FindClosestCenterpoint ==
    /\ nops = 0
    /\ nops' = 1
    /\ LET r == find_closest_centerpoint(geo.point, geo.trackcenter, geo.plane)
       IN  /\ geo' = [geo EXCEPT !.ret = r.ret]
           /\ last' = Result("find_closest_centerpoint", <<>>, r.exc, r.exc = "none", r.idx)
    /\ UNCHANGED <<lines, file, th, vh>>

InitCenter ==
    /\ lines = EmptyDoc
    /\ file = [compressed |-> FALSE, text |-> EmptyDoc]
    /\ th = <<ForeignTrilist>>
    /\ vh = <<ForeignVertex>>
    /\ last = Result("load", <<>>, "none", TRUE, None)
    /\ nops = 0
    /\ \E row \in Rows, centerpoints \in SeqsUpTo(Rows, MaxSamples), plane \in Planes :
          geo = [point |-> from_numpy(row), trackcenter |-> Trackcenter(centerpoints),
                 plane |-> plane, ret |-> NoPoint]

NextCenter == FindClosestCenterpoint

SpecCenter == InitCenter /\ [][NextCenter]_vars

\* ------------------------------------------------- the distances alone
\* the plane tokens of signed_distance_between, and one it does not know
DistancePlanes == {"x", "y", "z", "xy", "xz", "zy", "xyz", "yz"}

SignedDistanceBetween ==
    /\ nops = 0
    /\ nops' = 1
    /\ LET r == signed_distance_between(geo.point1, geo.point2, geo.plane)
       IN  /\ geo' = [geo EXCEPT !.ret = r.ret]
           /\ last' = Result("signed_distance_between", <<>>, r.exc, r.exc = "none", None)
    /\ UNCHANGED <<lines, file, th, vh>>

DistanceBetween ==
    /\ nops = 0
    /\ nops' = 1
    /\ LET r == distance_between(geo.point1, geo.point2, geo.plane)
       IN  /\ geo' = [geo EXCEPT !.ret = r.ret]
           /\ last' = Result("distance_between", <<>>, r.exc, r.exc = "none", None)
    /\ UNCHANGED <<lines, file, th, vh>>

InitDistance ==
    /\ lines = EmptyDoc
    /\ file = [compressed |-> FALSE, text |-> EmptyDoc]
    /\ th = <<ForeignTrilist>>
    /\ vh = <<ForeignVertex>>
    /\ last = Result("load", <<>>, "none", TRUE, None)
    /\ nops = 0
    /\ \E row1 \in Rows, row2 \in Rows, plane \in DistancePlanes :
          geo = [point1 |-> from_numpy(row1), point2 |-> from_numpy(row2),
                 plane |-> plane, ret |-> NoFloat]

NextDistance == SignedDistanceBetween \/ DistanceBetween

SpecDistance == InitDistance /\ [][NextDistance]_vars

\* --------------------------------------- the closest Trackcenter alone
\* candidates in the list a client passes
MaxCandidates == 2

FindClosestTrackcenter ==
    /\ nops = 0
    /\ nops' = 1
    /\ LET r == find_closest_trackcenter(geo.point, geo.trackcenters, geo.plane)
       IN  /\ geo' = [geo EXCEPT !.ret = r.ret]
           /\ last' = Result("find_closest_trackcenter", <<>>, r.exc, r.exc = "none", None)
    /\ UNCHANGED <<lines, file, th, vh>>

InitTrackcenters ==
    /\ lines = EmptyDoc
    /\ file = [compressed |-> FALSE, text |-> EmptyDoc]
    /\ th = <<ForeignTrilist>>
    /\ vh = <<ForeignVertex>>
    /\ last = Result("load", <<>>, "none", TRUE, None)
    /\ nops = 0
    /\ \E row \in Rows, plane \in Planes,
          trackcenters \in SeqsUpTo({Trackcenter(c) : c \in SeqsUpTo(Rows, MaxSamples)},
                                    MaxCandidates) :
          geo = [point |-> from_numpy(row), trackcenters |-> trackcenters,
                 plane |-> plane, ret |-> NoTrackcenter]

SpecTrackcenters == InitTrackcenters /\ [][FindClosestTrackcenter]_vars

\* ---------------------------------------------- a straight section alone
\* num_points of a call, and the step between two samples
StraightCounts == {2, 3, 10}

StraightSteps == {1, 2}

GenerateStraightCenterpoints ==
    /\ nops = 0
    /\ nops' = 1
    /\ geo' = [geo EXCEPT !.ret = generate_straight_centerpoints(geo.length, geo.num_points,
                                      geo.start_angle, geo.start_point)]
    /\ last' = Result("generate_straight_centerpoints", <<>>, "none", TRUE, None)
    /\ UNCHANGED <<lines, file, th, vh>>

InitStraight ==
    /\ lines = EmptyDoc
    /\ file = [compressed |-> FALSE, text |-> EmptyDoc]
    /\ th = <<ForeignTrilist>>
    /\ vh = <<ForeignVertex>>
    /\ last = Result("load", <<>>, "none", TRUE, None)
    /\ nops = 0
    /\ \E row \in Rows, num_points \in StraightCounts, step \in StraightSteps,
          start_angle \in {0, 90} :
          geo = [length |-> step * (num_points - 1), num_points |-> num_points,
                 start_angle |-> start_angle, start_point |-> from_numpy(row),
                 ret |-> generate_empty_centerpoints]

SpecStraight == InitStraight /\ [][GenerateStraightCenterpoints]_vars

\* ------------------------------------------------- the database alone
\* the TrackSection blocks of the file: two straights, a right and a left
\* curve
TrackSections ==
    <<TrackSection(5, None, None), TrackSection(12, None, None),
      TrackSection(0, 3, 90), TrackSection(0, 4, 0 - 45)>>

\* TrackSection numbers on one SectionIdx line
MaxSections == 2

\* the lines a TrackShape can hold: a start position with its start angle,
\* and TrackSection numbers, of which 5 is not in the file
SectionIdxs ==
    {SectionIdx(at[1], at[2], ids) :
        at \in {<<<<0, 0, 0>>, 0>>, <<<<0 - 2, 0, 1>>, 90>>},
        ids \in SeqsUpTo(1..5, MaxSections)}

\* the second SectionIdx line of a TrackShape that has two
SecondSectionIdxs ==
    {SectionIdx(<<0 - 2, 0, 1>>, 90, <<1>>), SectionIdx(<<0, 0, 0>>, 0, <<3, 2>>)}

GenerateTrackcentersFromTsection ==
    /\ nops = 0
    /\ nops' = 1
    /\ LET r == generate_trackcenters_from_tsection(geo.shape_name, geo.tsection,
                    geo.num_points_per_meter, geo.start_offset)
       IN  /\ geo' = [geo EXCEPT !.ret = r.ret]
           /\ last' = Result("generate_trackcenters_from_tsection", <<>>, r.exc,
                             r.exc = "none", None)
    /\ UNCHANGED <<lines, file, th, vh>>

InitTsection ==
    /\ lines = EmptyDoc
    /\ file = [compressed |-> FALSE, text |-> EmptyDoc]
    /\ th = <<ForeignTrilist>>
    /\ vh = <<ForeignVertex>>
    /\ last = Result("load", <<>>, "none", TRUE, None)
    /\ nops = 0
    /\ \E line1 \in SectionIdxs, line2 \in SecondSectionIdxs, routes \in 0..2,
          local \in BOOLEAN, shape_name \in {"A4t50mStrt.s", "Unknown.s"},
          num_points_per_meter \in {1, 2}, x \in {0, 1} :
          geo = [shape_name |-> shape_name,
                 tsection |-> [local |-> local, sections |-> TrackSections,
                               shapes |-> <<[FileName |-> "A1tPnt5dLft.s", section_idxs |-> <<>>],
                                            [FileName |-> "A4t50mStrt.s",
                                             section_idxs |->
                                                 SubSeq(<<line1, line2>>, 1, routes)]>>],
                 num_points_per_meter |-> num_points_per_meter,
                 start_offset |-> Point(x, 0, 0),
                 ret |-> <<>>]

SpecTsection == InitTsection /\ [][GenerateTrackcentersFromTsection]_vars

\* ------------------------------------------- the distance along alone
\* samples of the Trackcenter
MaxTrack == 3

\* where samples lie: any two of them that are neighbours are a whole
\* number apart
Sites == {<<0, 0, 0>>, <<3, 0, 0>>, <<0, 0, 4>>, <<3, 1, 4>>, <<0, 0, 8>>}

DistanceAlongTrackcenter ==
    /\ nops = 0
    /\ nops' = 1
    /\ \E end_idx \in NearestSamples([i \in 1..Len(geo.trackcenter.centerpoints) |->
                                        <<geo.trackcenter.centerpoints[i][1],
                                          geo.trackcenter.centerpoints[i][3]>>],
                                    <<geo.point.x, geo.point.z>>) :
          LET r == distance_along_trackcenter(end_idx, geo.trackcenter, geo.start_point,
                                              geo.max_neighbor_dist)
          IN  /\ geo' = [geo EXCEPT !.ret = r.ret, !.at = r.at, !.fallback = r.fallback]
              /\ last' = Result("distance_along_trackcenter", <<>>, "none", TRUE, end_idx)
    /\ UNCHANGED <<lines, file, th, vh>>

InitAlong ==
    /\ lines = EmptyDoc
    /\ file = [compressed |-> FALSE, text |-> EmptyDoc]
    /\ th = <<ForeignTrilist>>
    /\ vh = <<ForeignVertex>>
    /\ last = Result("load", <<>>, "none", TRUE, None)
    /\ nops = 0
    /\ \E centerpoints \in SeqsUpTo(Sites, MaxTrack) \ {<<>>},
          row \in {<<0, 0, 0>>, <<3, 1, 4>>, <<0, 0, 8>>},
          start \in {<<0, 0, 0>>, <<3, 0, 8>>}, max_neighbor_dist \in {3, 5} :
          geo = [point |-> from_numpy(row), trackcenter |-> Trackcenter(centerpoints),
                 start_point |-> from_numpy(start), max_neighbor_dist |-> max_neighbor_dist,
                 ret |-> None, at |-> None, fallback |-> FALSE]

SpecAlong == InitAlong /\ [][DistanceAlongTrackcenter]_vars

\* ------------------------------------------- the new position alone
\* Trackcenters along the z and the x axis at two heights, one without
\* samples and one too short for a spline
LineTracks ==
    {Trackcenter([i \in 1..n |-> IF along = "z" THEN <<0, y, i - 1>> ELSE <<i - 1, y, 0>>]) :
        n \in {0, 2, 4}, along \in {"z", "x"}, y \in {0, 1}}

GetNewPositionFromTrackcenter ==
    /\ nops = 0
    /\ nops' = 1
    /\ LET r == get_new_position_from_trackcenter(geo.new_signed_distance, geo.original_point,
                                                  geo.trackcenter)
       IN  /\ geo' = [geo EXCEPT !.ret = r.ret]
           /\ last' = Result("get_new_position_from_trackcenter", <<>>, r.exc, r.exc = "none", None)
    /\ UNCHANGED <<lines, file, th, vh>>

InitPosition ==
    /\ lines = EmptyDoc
    /\ file = [compressed |-> FALSE, text |-> EmptyDoc]
    /\ th = <<ForeignTrilist>>
    /\ vh = <<ForeignVertex>>
    /\ last = Result("load", <<>>, "none", TRUE, None)
    /\ nops = 0
    /\ \E row \in Rows, trackcenter \in LineTracks, new_signed_distance \in {0 - 1, 0, 2} :
          geo = [new_signed_distance |-> new_signed_distance, original_point |-> from_numpy(row),
                 trackcenter |-> trackcenter, ret |-> NoPoint]

SpecPosition == InitPosition /\ [][GetNewPositionFromTrackcenter]_vars

\* ------------------------------------------------------------ properties
SubKeys(d) == DOMAIN d.subs

\* the declared counts of a document equal the records present
CountsMatch(d) ==
    /\ d.points.count = Len(d.points.recs)
    /\ d.uv_points.count = Len(d.uv_points.recs)
    /\ d.normals.count = Len(d.normals.recs)
    /\ \A k \in SubKeys(d) : d.subs[k].vcount = Len(VertexScan(d.subs[k]))

\* C1: starting from a document whose declared points, uv_points, normals
\* and per-sub-object vertices counts equal the records present, after any
\* sequence of add_point, add_uvpoint, add_normal, set_*_value,
\* add_vertex_to_subobject, insert_vertex_between, insert_triangle_between,
\* remove_triangle_between and remove_triangles_connected_to_vertex calls
\* every declared count still equals the number of records of its kind.
C1_CountsStayConsistent == CountsMatch(lines)

\* two vertices were inserted into sub-object (Lod1, 0) one after the other
C1_Witness ==
    /\ nops = 2
    /\ last.op = "insert_vertex_between" /\ last.ok
    /\ HasSub(lines, Lod1, 0)
    /\ lines.subs[<<Lod1, 0>>].vcount = Len(file.text.subs[<<Lod1, 0>>].verts) + 2
    /\ lines.points.count = Len(file.text.points.recs) + 2
    /\ lines.normals.count > Len(file.text.normals.recs) + 2
\* after has every index of before that is >= k raised by one, the others kept
ShiftedAt(before, after, k) ==
    /\ Len(after) = Len(before)
    /\ \A i \in 1..Len(before) :
          after[i] = IF before[i] >= k THEN before[i] + 1 ELSE before[i]

\* the call that led to the current step, by its name and outcome
Called(op) == nops' = nops + 1 /\ last'.op = op

Returned(op) == Called(op) /\ last'.exc = "none" /\ last'.ok

\* C2: after add_vertex_to_subobject inserts a vertex at arena slot k of a
\* (LOD, sub-object), every vertex index >= k in every indexed trilist of
\* that (LOD, sub-object) in the document, and in the trilist passed in, is
\* exactly one greater than before, and every vertex index < k is unchanged.
C2_AllTrilistsShifted ==
    [][Returned("add_vertex_to_subobject") =>
          LET key == <<last'.args[1], last'.args[2]>>
              i == last'.args[3]
              k == last'.idx
          IN  /\ Len(lines'.subs[key].tl) = Len(lines.subs[key].tl)
              /\ \A t \in 1..Len(lines.subs[key].tl) :
                    ShiftedAt(ParseLines(lines.subs[key].tl[t].v),
                              ParseLines(lines'.subs[key].tl[t].v), k)
              /\ ShiftedAt(th[i].v, th'[i].v, k)]_vars

\* a vertex went into slot 3 of a sub-object with three trilists: the
\* trilist (3, 4, 5) moved up, the two trilists below the slot did not
C2_Witness ==
    /\ last.op = "add_vertex_to_subobject" /\ last.ok /\ last.idx = 3
    /\ last.args[3] = 2
    /\ file.text = DocMulti
    /\ nops = 1
    /\ ParseLines(lines.subs[<<Lod1, 0>>].tl[3].v) = <<4, 5, 6>>
    /\ ParseLines(lines.subs[<<Lod1, 0>>].tl[1].v) = <<0, 1, 2>>
    /\ ParseLines(lines.subs[<<Lod1, 0>>].tl[2].v) = <<0, 1, 2, 0, 2, 1>>
    /\ th[2].v = <<0, 1, 2>>
\* the vertex set of the geometry node whose primitives hold trilist number
\* tidx (0-based) of the sub-object s, as a position in s.vsets; 0 if none
OwnerSet(s, tidx) ==
    LET Before(j) == SumSeq([m \in 1..(j - 1) |-> s.cull[m].n])
        nodes == {j \in 1..Len(s.cull) : Before(j) <= tidx /\ tidx < Before(j) + s.cull[j].n}
        sets == {m \in 1..Len(s.vsets) : \E j \in nodes : s.vsets[m].idx = j - 1}
    IN  IF sets = {} THEN 0 ELSE CHOOSE m \in sets : TRUE

\* C3: the arena slot chosen by add_vertex_to_subobject lies inside the
\* vertex-set range that owns the given trilist: if that vertex set had
\* start index s and count c before the call, the returned Vertex has
\* vertex_idx = s + c and the set's range becomes [s, s + c + 1), for every
\* vertex set of the sub-object and not only for the first one.
C3_SlotEndsOwnersRange ==
    [][Returned("add_vertex_to_subobject") =>
          LET key == <<last'.args[1], last'.args[2]>>
              m == OwnerSet(lines.subs[key], th[last'.args[3]].tidx)
              old == lines.subs[key].vsets[m]
              new == lines'.subs[key].vsets[m]
          IN  m # 0 =>
                /\ last'.idx = old.start + old.count
                /\ new.start = old.start
                /\ new.count = old.count + 1]_vars

\* triangle number t (0-based) of a flat index list, and its normal pair
Tri(v, t) == <<v[3 * t + 1], v[3 * t + 2], v[3 * t + 3]>>

NormalPair(n, t) == <<n[2 * t + 1], n[2 * t + 2]>>

TriCount(v) == Len(v) \div 3

TrisWithBoth(v, a, b) ==
    {t \in 0..(TriCount(v) - 1) : {a, b} \subseteq {Tri(v, t)[1], Tri(v, t)[2], Tri(v, t)[3]}}

\* C4: insert_vertex_between(t, v1, v2) increases the vertex arena of the
\* (LOD, sub-object) by exactly 1 and replaces every triangle of t that
\* contains both v1 and v2 by exactly two triangles, so the triangle count
\* of t grows by exactly the number of triangles that contained both.
C4_SplitGrowsTrilist ==
    [][Returned("insert_vertex_between") =>
          LET i == last'.args[1]
              key == <<th[i].lod, th[i].sub>>
              both == Cardinality(TrisWithBoth(th[i].v, vh[last'.args[2]].idx, vh[last'.args[3]].idx))
          IN  /\ lines'.subs[key].vcount = lines.subs[key].vcount + 1
              /\ Len(VertexScan(lines'.subs[key])) = Len(VertexScan(lines.subs[key])) + 1
              /\ TriCount(th'[i].v) = TriCount(th[i].v) + both
              /\ Len(th'[i].v) = Len(th[i].v) + 3 * both
              /\ Len(th'[i].n) = Len(th[i].n) + 2 * both
              /\ Len(th'[i].f) = Len(th[i].f) + both]_vars

\* C5: insert_vertex_between(t, v1, v2) removes from t exactly the
\* triangles that contain both v1 and v2: every other triangle of t,
\* including one that contains only one of v1 and v2, is still present
\* afterwards with the same vertices (up to the +1 index shift of the
\* insertion), the same normal-index pair and the same flag.
C5_OtherTrianglesKept ==
    [][Returned("insert_vertex_between") =>
          LET i == last'.args[1]
              k == last'.idx
              old == th[i]
              new == th'[i]
              Up(x) == IF x >= k THEN x + 1 ELSE x
          IN  \A t \in 0..(TriCount(old.v) - 1) :
                t \notin TrisWithBoth(old.v, vh[last'.args[2]].idx, vh[last'.args[3]].idx) =>
                  \E u \in 0..(TriCount(new.v) - 1) :
                     /\ Tri(new.v, u) = <<Up(Tri(old.v, t)[1]), Up(Tri(old.v, t)[2]), Up(Tri(old.v, t)[3])>>
                     /\ NormalPair(new.n, u) = NormalPair(old.n, t)
                     /\ new.f[u + 1] = old.f[t + 1]]_vars
TrilistShape(v, n, f) ==
    /\ Len(v) % 3 = 0
    /\ Len(n) = 2 * (Len(v) \div 3)
    /\ Len(f) = Len(v) \div 3

\* C6: in every indexed trilist of the document and in every IndexedTrilist
\* handle, after any sequence of insert_vertex_between,
\* insert_triangle_between, remove_triangle_between,
\* remove_triangles_connected_to_vertex and add_vertex_to_subobject calls,
\* len(vertex_idxs) is a multiple of 3, len(normal_idxs) is
\* 2 * len(vertex_idxs) / 3 and len(flags) is len(vertex_idxs) / 3.
C6_TrilistShapeKept ==
    /\ \A k \in SubKeys(lines) : \A t \in 1..Len(lines.subs[k].tl) :
          TrilistShape(ParseLines(lines.subs[k].tl[t].v), ParseLines(lines.subs[k].tl[t].n),
                       ParseLines(lines.subs[k].tl[t].f))
    /\ \A i \in 1..Len(th) : TrilistShape(th[i].v, th[i].n, th[i].f)

\* a triangle was appended to a two-triangle trilist, and an edge shared by
\* two of the three triangles was then split
C6_Witness ==
    /\ nops = 2
    /\ last.op = "insert_vertex_between" /\ last.ok
    /\ file.text = DocSingle
    /\ Len(th[2].v) = 12 /\ Len(th[2].n) = 8 /\ Len(th[2].f) = 4
    /\ lines.subs[<<Lod1, 0>>].vcount = 5
    /\ Len(lines.normals.recs) = 10
    /\ ParseLines(lines.subs[<<Lod1, 0>>].tl[1].v) = th[2].v

\* the totals of a sub-object follow its trilists, node by node in the
\* order the trilists stand in the document
AggregatesMatch(s) ==
    LET tris == [t \in 1..Len(s.tl) |-> TriCount(ParseLines(s.tl[t].v))]
        vtx == [t \in 1..Len(s.tl) |-> Len(ParseLines(s.tl[t].v))]
        Before(j) == SumSeq([m \in 1..(j - 1) |-> s.cull[m].n])
    IN  /\ s.ginfo.tris = SumSeq(tris)
        /\ s.ginfo.vtx = SumSeq(vtx)
        /\ \A j \in 1..Len(s.cull) :
              /\ s.cull[j].tris = SumSeq(SubSeq(tris, Before(j) + 1, Before(j) + s.cull[j].n))
              /\ s.cull[j].vtx = SumSeq(SubSeq(vtx, Before(j) + 1, Before(j) + s.cull[j].n))

TrilistMutations ==
    {"insert_triangle_between", "remove_triangle_between", "remove_triangles_connected_to_vertex",
     "insert_vertex_between", "add_vertex_to_subobject"}

\* C7: after every completed trilist mutation in a (LOD, sub-object), the
\* sub-object's geometry_info totals equal the sum over all its trilists
\* of the triangle count and of len(vertex_idxs), and each cullable_prims
\* entry's two totals equal those sums taken over exactly the trilists
\* that belong to that entry in document occurrence order, also when
\* trilists of one prim_state are not adjacent in the document.
C7_AggregatesTrackTrilists ==
    [][(\E op \in TrilistMutations : Returned(op)) =>
          \A k \in SubKeys(lines') : AggregatesMatch(lines'.subs[k])]_vars

\* C8: while a document is compressed, every attempt to read its lines
\* (directly or through any query or mutation operation) and every save
\* fails with an error; neither returns line data nor writes the file.
C8_DeniedWhileCompressed ==
    [][(Compressed /\ nops' = nops + 1 /\ last'.op \notin {"compress", "decompress"}) =>
          /\ last'.exc # "none"
          /\ last'.op \in {"lines", "save", "refresh"} => last'.exc = "AttributeError"
          /\ ~last'.ok
          /\ lines' = lines
          /\ file' = file
          /\ vh' = vh]_vars

\* a loaded document was compressed and the save that followed was refused
C8_Witness ==
    /\ nops = 2
    /\ Compressed
    /\ last.op = "save" /\ last.exc = "AttributeError"
    /\ ~lines.nolines
    /\ lines.points.present

\* C9: a document is always in exactly one of the states decompressed,
\* compressed or unknown, and the compression state changes only through
\* the external tool: compress invokes the tool only when the document is
\* not compressed and leaves it compressed, decompress invokes the tool
\* only when the document is compressed and leaves it decompressed with
\* its lines readable, and compress on a compressed document or decompress
\* on a non-compressed one changes nothing.
C9_ToolGatesState ==
    [][nops' = nops + 1 =>
          /\ is_compressed(file') \in {"True", "False", "None"}
          /\ last'.op = "compress" =>
                IF is_compressed(file) # "True"
                THEN last'.ok /\ is_compressed(file') = "True"
                ELSE ~last'.ok /\ file' = file /\ lines' = lines
          /\ last'.op = "decompress" =>
                IF is_compressed(file) = "True"
                THEN last'.ok /\ is_compressed(file') = "False" /\ ~lines'.nolines
                ELSE ~last'.ok /\ file' = file /\ lines' = lines
          /\ last'.op \notin {"compress", "decompress"} =>
                is_compressed(file') = is_compressed(file)]_vars

\* the (LOD, sub-object) pairs of the arguments of a call are not all the same
ScopeMismatch(op, args) ==
    IF op = "add_vertex_to_subobject"
    THEN <<th[args[3]].lod, th[args[3]].sub>> # <<args[1], args[2]>>
    ELSE IF op \in TrilistMutations
    THEN \E j \in 2..Len(args) :
            <<vh[args[j]].lod, vh[args[j]].sub>> # <<th[args[1]].lod, th[args[1]].sub>>
    ELSE FALSE

\* C10: every operation given vertices and/or a trilist that do not all
\* share the same LOD distance level and sub-object raises an error before
\* changing anything: the document lines, all counts and the passed
\* IndexedTrilist are identical to their state before the call.
C10_ScopeMismatchChangesNothing ==
    [][(nops' = nops + 1 /\ ScopeMismatch(last'.op, last'.args)) =>
          /\ last'.exc = "ValueError"
          /\ lines' = lines
          /\ th' = th
          /\ vh' = vh
          /\ file' = file]_vars

\* an edited document refused a removal whose vertex came from another
\* (LOD, sub-object) than the trilist
C10_Witness ==
    /\ nops = 2
    /\ last.op = "remove_triangles_connected_to_vertex" /\ last.exc = "ValueError"
    /\ last.args = <<2, 1>>
    /\ ~lines.nolines /\ lines # file.text
    /\ Len(th[2].v) = 6

\* the collection an add_* / set_*_value / get_*_by_idx call works on
BlockName(op) ==
    IF op \in {"add_point", "set_point_value", "get_point_by_idx"} THEN "points"
    ELSE IF op \in {"add_uvpoint", "set_uvpoint_value", "get_uvpoint_by_idx"} THEN "uv_points"
    ELSE "normals"

BlockNames == {"points", "uv_points", "normals"}

BlockOf(d, op) == d[BlockName(op)]

GetByIdx(d, op, i) ==
    IF op \in {"add_point", "set_point_value", "get_point_by_idx"} THEN get_point_by_idx(d, i)
    ELSE IF op \in {"add_uvpoint", "set_uvpoint_value", "get_uvpoint_by_idx"} THEN get_uvpoint_by_idx(d, i)
    ELSE get_normal_by_idx(d, i)

AddOps == {"add_point", "add_uvpoint", "add_normal"}

\* what an add_* call that did not raise does, for a read-back value of back
AddAppends(op, back) ==
    LET old == BlockOf(lines, op)
        new == BlockOf(lines', op)
    IN  /\ last'.ok
        /\ last'.idx = Len(old.recs)
        /\ Len(new.recs) = Len(old.recs) + 1
        /\ new.count = old.count + 1
        /\ GetByIdx(lines', op, last'.idx) = back
        /\ \A i \in 0..(Len(old.recs) - 1) : GetByIdx(lines', op, i) = GetByIdx(lines, op, i)

\* C11 as stated: add_point, add_uvpoint and add_normal each append one
\* record, raise the declared count by one and return the index of the new
\* record (the length before the call); reading that index back returns the
\* added value, and every earlier record keeps its index and value.
C11_AddReadsBackExactly ==
    [][\A op \in AddOps : (Called(op) /\ last'.exc = "none") =>
          AddAppends(op, last'.args[1])]_vars

\* C11 amended: in a document that has the collection's block, add_point,
\* add_uvpoint and add_normal each append one record, raise the declared
\* count by one and return the index of the new record (the length before
\* the call); reading that index back returns the added value rounded to 4
\* decimal places, and every earlier record keeps its index and value.
\* Without the block the call returns None and changes nothing.
C11_AddReadsBackRounded ==
    [][\A op \in AddOps : (Called(op) /\ last'.exc = "none") =>
          IF BlockOf(lines, op).present
          THEN AddAppends(op, Round4(last'.args[1]))
          ELSE ~last'.ok /\ last'.idx = None /\ lines' = lines]_vars

\* a normal with five decimals was added after another add: it reads back
\* at the returned index, rounded
C11_Witness ==
    /\ nops = 2
    /\ last.op = "add_normal" /\ last.ok /\ last.args = <<12346>>
    /\ last.idx = Len(file.text.normals.recs) + 1
    /\ get_normal_by_idx(lines, last.idx) = 12350
    /\ lines.normals.count = last.idx + 1

SetOps == {"set_point_value", "set_uvpoint_value", "set_normal_value"}

\* what a set_*_value call that did not raise does; the value read back is
\* the one passed in, or that value rounded
SetOverwrites(op, rounded) ==
    LET i == last'.args[1]
        back == IF rounded THEN Round4(last'.args[2]) ELSE last'.args[2]
        old == BlockOf(lines, op)
        new == BlockOf(lines', op)
    IN  IF i >= 0 /\ i < Len(old.recs)
        THEN /\ last'.ok
             /\ GetByIdx(lines', op, i) = back
             /\ Len(new.recs) = Len(old.recs)
             /\ \A j \in 0..(Len(old.recs) - 1) :
                   j # i => GetByIdx(lines', op, j) = GetByIdx(lines, op, j)
             /\ new.count = old.count
             /\ \A b \in BlockNames \ {BlockName(op)} : lines'[b] = lines[b]
             /\ lines'.subs = lines.subs
        ELSE ~last'.ok /\ lines' = lines

\* C12 as stated: set_point_value, set_uvpoint_value and set_normal_value
\* overwrite exactly the record at the given index and return true when the
\* index exists (a get by that index then returns the new value, all other
\* records and all counts are unchanged); otherwise they return false and
\* leave the document unchanged.
C12_SetReadsBackExactly ==
    [][\A op \in SetOps : (Called(op) /\ last'.exc = "none") => SetOverwrites(op, FALSE)]_vars

\* C12 amended: as stated, except that a get by that index then returns
\* the new value rounded to 4 decimal places.
C12_SetReadsBackRounded ==
    [][\A op \in SetOps : (Called(op) /\ last'.exc = "none") => SetOverwrites(op, TRUE)]_vars

\* the first uv point was overwritten with a five-decimal value as the
\* second operation on the document
C12_Witness ==
    /\ nops = 2
    /\ last.op = "set_uvpoint_value" /\ last.ok /\ last.args = <<0, 12346>>
    /\ get_uvpoint_by_idx(lines, 0) = 12350
    /\ lines.uv_points.recs = [file.text.uv_points.recs EXCEPT ![1] = 12350]
    /\ lines.uv_points.count = Len(file.text.uv_points.recs)

\* the vertex arenas, the points and the uv points of two documents agree
SameArenas(d, e) ==
    /\ e.points = d.points
    /\ e.uv_points = d.uv_points
    /\ SubKeys(e) = SubKeys(d)
    /\ \A k \in SubKeys(d) :
          /\ e.subs[k].verts = d.subs[k].verts
          /\ e.subs[k].stray = d.subs[k].stray
          /\ e.subs[k].vcount = d.subs[k].vcount
          /\ e.subs[k].vsets = d.subs[k].vsets

\* every trilist of d other than number tidx (0-based) of sub-object key
\* stands unchanged in e
OtherTrilistsSame(d, e, key, tidx) ==
    \A k \in SubKeys(d) :
        /\ Len(e.subs[k].tl) = Len(d.subs[k].tl)
        /\ \A t \in 1..Len(d.subs[k].tl) :
              (k # key \/ t # tidx + 1) => e.subs[k].tl[t] = d.subs[k].tl[t]

\* the trilist of the document that handle h names reads as h
ReadsAs(d, h) ==
    LET l == d.subs[<<h.lod, h.sub>>].tl[h.tidx + 1]
    IN  /\ ParseLines(l.v) = h.v
        /\ ParseLines(l.n) = h.n
        /\ ParseLines(l.f) = h.f

\* C13: insert_triangle_between(t, v1, v2, v3) appends exactly one triangle
\* (v1, v2, v3) at the end of t with a newly added face normal as its normal
\* index (paired with the marker value) and the default flag: t gains 3
\* vertex indices, 2 normal indices and 1 flag, the normals collection grows
\* by exactly 1, every existing triangle of t is unchanged, and the vertex
\* arena and every other trilist are unchanged.
C13_TriangleAppended ==
    [][Returned("insert_triangle_between") =>
          LET i == last'.args[1]
              h == th[i]
              nidx == Len(lines.normals.recs)
          IN  /\ th'[i].v = h.v \o <<vh[last'.args[2]].idx, vh[last'.args[3]].idx, vh[last'.args[4]].idx>>
              /\ th'[i].n = h.n \o <<nidx, FaceMarker>>
              /\ th'[i].f = h.f \o <<DefaultFlag>>
              /\ ReadsAs(lines', th'[i])
              /\ Len(lines'.normals.recs) = nidx + 1
              /\ lines'.normals.count = lines.normals.count + 1
              /\ SubSeq(lines'.normals.recs, 1, nidx) = lines.normals.recs
              /\ SameArenas(lines, lines')
              /\ OtherTrilistsSame(lines, lines', <<h.lod, h.sub>>, h.tidx)
              /\ \A j \in 1..Len(th) : j # i => th'[j] = th[j]
              /\ vh' = vh]_vars

\* two triangles were appended to the two-triangle trilist of sub-object 0
C13_Witness ==
    /\ nops = 2
    /\ last.op = "insert_triangle_between" /\ last.ok /\ last.args[1] = 2
    /\ file.text = DocSingle
    /\ Len(th[2].v) = 12 /\ Len(th[2].n) = 8 /\ Len(th[2].f) = 4
    /\ SubSeq(th[2].v, 1, 6) = <<0, 1, 2, 0, 2, 3>>
    /\ SubSeq(th[2].n, 5, 8) = <<4, FaceMarker, 5, FaceMarker>>
    /\ Len(lines.normals.recs) = 6
    /\ ReadsAs(lines, th[2])

RemoveOps == {"remove_triangle_between", "remove_triangles_connected_to_vertex"}

\* the numbers (0-based, ascending) of the triangles of v that do not hold
\* every index of need
KeptTris(v, need) ==
    SelectSeq([t \in 1..TriCount(v) |-> t - 1],
              LAMBDA t : ~(need \subseteq {Tri(v, t)[1], Tri(v, t)[2], Tri(v, t)[3]}))

\* C14: remove_triangle_between(t, v1, v2, v3) removes from t exactly the
\* triangles whose three indices include v1, v2 and v3 (in any order), and
\* remove_triangles_connected_to_vertex(t, v) removes exactly the triangles
\* that contain v; for each removed triangle its normal-index pair and its
\* flag are removed with it, and the remaining triangles keep their relative
\* order and their own normal-index pair and flag.
C14_ExactlyMatchingRemoved ==
    [][\A op \in RemoveOps : (Called(op) /\ last'.exc # "ValueError") =>
          LET i == last'.args[1]
              old == th[i]
              new == th'[i]
              need == {vh[last'.args[j]].idx : j \in 2..Len(last'.args)}
              keep == KeptTris(old.v, need)
          IN  /\ new.v = Flatten([j \in 1..Len(keep) |-> Tri(old.v, keep[j])])
              /\ new.n = Flatten([j \in 1..Len(keep) |-> NormalPair(old.n, keep[j])])
              /\ new.f = [j \in 1..Len(keep) |-> old.f[keep[j] + 1]]
              /\ last'.ok => ReadsAs(lines', new)]_vars

\* a third triangle (1, 2, 3) was appended to (0, 1, 2), (0, 2, 3) and the
\* first one was then removed: the other two stand in order with their own
\* normal pairs and flags
C14_Witness ==
    /\ nops = 2
    /\ last.op = "remove_triangle_between" /\ last.ok /\ last.args[1] = 2
    /\ file.text = DocSingle
    /\ th[2].v = <<0, 2, 3, 1, 2, 3>>
    /\ th[2].n = <<1, FaceMarker, 4, FaceMarker>>
    /\ th[2].f = <<2, DefaultFlag>>
    /\ ReadsAs(lines, th[2])

\* no collection and no vertex arena of d is larger than in e
NothingRemoved(d, e) ==
    /\ \A b \in BlockNames : Len(e[b].recs) >= Len(d[b].recs)
    /\ \A k \in SubKeys(d) :
          /\ k \in SubKeys(e)
          /\ Len(VertexScan(e.subs[k])) >= Len(VertexScan(d.subs[k]))

\* C15: no operation ever removes a point, uv point, normal or vertex: over
\* any sequence of operations the sizes of the points, uv_points and normals
\* collections and of every vertex arena never decrease, and after
\* remove_triangles_connected_to_vertex(t, v) the vertex v is still present
\* in its arena although no triangle of t references it.
C15_NothingEverRemoved ==
    [][/\ NothingRemoved(lines, lines')
       /\ (Called("remove_triangles_connected_to_vertex") /\ last'.exc # "ValueError") =>
             LET v == vh[last'.args[2]]
                 new == th'[last'.args[1]]
             IN  /\ get_vertex_in_subobject_by_idx(lines', v.lod, v.sub, v.idx)
                       = get_vertex_in_subobject_by_idx(lines, v.lod, v.sub, v.idx)
                 /\ \A t \in 0..(TriCount(new.v) - 1) :
                       v.idx \notin {Tri(new.v, t)[1], Tri(new.v, t)[2], Tri(new.v, t)[3]}]_vars

\* a fifth vertex was added to sub-object 0, then every triangle at vertex 0
\* was removed: the trilist is empty and the five vertices are all there
C15_Witness ==
    /\ nops = 2
    /\ last.op = "remove_triangles_connected_to_vertex" /\ last.ok /\ last.args = <<2, 2>>
    /\ file.text = DocSingle
    /\ th[2].v = <<>>
    /\ lines.subs[<<Lod1, 0>>].ginfo.tris = 0
    /\ Len(VertexScan(lines.subs[<<Lod1, 0>>])) = 5
    /\ get_vertex_in_subobject_by_idx(lines, Lod1, 0, 0) = vh[2]

\* the document has a trilist with the (LOD, sub-object, occurrence index)
\* of handle h
InDocument(d, h) ==
    /\ <<h.lod, h.sub>> \in SubKeys(d)
    /\ h.tidx \in 0..(Len(d.subs[<<h.lod, h.sub>>].tl) - 1)

\* C16: update_indexed_trilist returns false, and leaves the document lines
\* and all aggregate fields unchanged, when no trilist with the handle's
\* (LOD, sub-object, trilist occurrence index) exists in the document; it
\* returns true only when the trilist's line ranges were found and replaced.
C16_FalseWhenNotLocated ==
    [][(Called("update_indexed_trilist") /\ last'.exc = "none") =>
          LET h == th[last'.args[1]]
          IN  /\ ~InDocument(lines, h) => (~last'.ok /\ lines' = lines)
              /\ last'.ok => (InDocument(lines, h) /\ ReadsAs(lines', h))]_vars

\* the client put 66 triangles into the handle with occurrence index 5 and
\* called update_indexed_trilist: not found, the document is as loaded
C16_Witness ==
    /\ nops = 2
    /\ last.op = "update_indexed_trilist" /\ last.exc = "none" /\ ~last.ok
    /\ th[last.args[1]].tidx = MissingTrilist.tidx
    /\ Len(th[last.args[1]].v) = 198
    /\ lines = file.text
    /\ lines.subs[<<Lod1, 0>>].ginfo.vtx < 198

\* no line of ls carries more than k tokens after the count of the first
WithinLine(ls, k) ==
    \A i \in 1..Len(ls) : Len(ls[i].toks) - (IF i = 1 THEN 1 ELSE 0) <= k

\* C17: round trip of the serialization primitive: for a trilist handle t of
\* any size (empty, a single chunk, exactly one full chunk, several chunks),
\* after update_indexed_trilist(t) returns true,
\* get_indexed_trilists_in_subobject returns at t's trilist index a trilist
\* whose vertex_idxs, normal_idxs and flags equal t's, every other trilist of
\* the document reads back unchanged, no emitted line carries more than 197
\* indices or 100 flags, and calling update_indexed_trilist(t) a second time
\* leaves the document unchanged.
C17_TrilistRoundTrip ==
    [][Returned("update_indexed_trilist") =>
          LET h == th[last'.args[1]]
              key == <<h.lod, h.sub>>
              was == get_indexed_trilists_in_subobject(lines, h.lod, h.sub)
              back == get_indexed_trilists_in_subobject(lines', h.lod, h.sub)
              l == lines'.subs[key].tl[h.tidx + 1]
          IN  /\ Len(back) = Len(was)
              /\ \E j \in 1..Len(back) : back[j].tidx = h.tidx
              /\ \A j \in 1..Len(back) :
                    IF back[j].tidx = h.tidx
                    THEN back[j].v = h.v /\ back[j].n = h.n /\ back[j].f = h.f
                    ELSE back[j] = was[j]
              /\ \A k \in SubKeys(lines) \ {key} :
                    get_indexed_trilists_in_subobject(lines', k[1], k[2])
                       = get_indexed_trilists_in_subobject(lines, k[1], k[2])
              /\ WithinLine(l.v, IdxChunk) /\ WithinLine(l.n, IdxChunk) /\ WithinLine(l.f, FlagChunk)
              /\ update_indexed_trilist(lines', h) = [doc |-> lines', ret |-> TRUE]]_vars

\* a trilist of 132 triangles was written: three lines of vertex indices,
\* two of normal indices, two of flags, and it reads back as the handle
C17_Witness ==
    /\ nops = 2
    /\ last.op = "update_indexed_trilist" /\ last.ok
    /\ LET h == th[last.args[1]]
           l == lines.subs[<<h.lod, h.sub>>].tl[h.tidx + 1]
       IN  /\ Len(h.v) = 396 /\ Len(h.n) = 264 /\ Len(h.f) = 132
           /\ Len(l.v) = 3 /\ Len(l.n) = 2 /\ Len(l.f) = 2
           /\ Len(l.v[1].toks) = IdxChunk + 1 /\ Len(l.f[1].toks) = FlagChunk + 1
           /\ ReadsAs(lines, h)

ListLookups == {"get_prim_states_by_name", "get_indexed_trilists_in_subobject_by_prim_state"}

LookupOps ==
    {"get_point_by_idx", "get_uvpoint_by_idx", "get_normal_by_idx", "get_prim_state_by_idx",
     "get_vertex_in_subobject_by_idx"} \cup ListLookups

\* the document d has nothing under the index, name or prim_state asked for
Misses(d, op, args) ==
    IF op \in {"get_point_by_idx", "get_uvpoint_by_idx", "get_normal_by_idx"}
    THEN args[1] \notin 0..(Len(BlockOf(d, op).recs) - 1)
    ELSE IF op = "get_prim_state_by_idx"
    THEN args[1] \notin 0..(Len(d.prim_states) - 1)
    ELSE IF op = "get_prim_states_by_name"
    THEN \A i \in 1..Len(d.prim_states) : d.prim_states[i] # QueryNames[args[1]]
    ELSE IF op = "get_vertex_in_subobject_by_idx"
    THEN \/ <<args[1], args[2]>> \notin SubKeys(d)
         \/ args[3] \notin 0..(Len(VertexScan(d.subs[<<args[1], args[2]>>])) - 1)
    ELSE \/ <<args[1], args[2]>> \notin SubKeys(d)
         \/ \A t \in 1..Len(d.subs[<<args[1], args[2]>>].tl) :
               d.subs[<<args[1], args[2]>>].tl[t].ps # args[3]

\* C18: lookups that miss never raise: get_point_by_idx, get_uvpoint_by_idx,
\* get_normal_by_idx, get_prim_state_by_idx and
\* get_vertex_in_subobject_by_idx return an absent result for an index that
\* does not exist, and get_prim_states_by_name and
\* get_indexed_trilists_in_subobject_by_prim_state return an empty list for
\* a name or prim_state with no match; in every case the document is
\* unchanged.  (The lines of the document are readable: it is not
\* compressed.)
C18_MissesReturnAbsent ==
    [][\A op \in LookupOps : (Called(op) /\ ~Compressed) =>
          /\ lines' = lines /\ file' = file /\ th' = th /\ vh' = vh
          /\ Misses(lines, op, last'.args) =>
                /\ last'.exc = "none"
                /\ ~last'.ok
                /\ last'.idx = IF op \in ListLookups THEN 0 ELSE None]_vars

\* after a vertex was added to sub-object 0, the trilists of prim_state 1
\* were asked for there: the list is empty
C18_Witness ==
    /\ nops = 2
    /\ last.op = "get_indexed_trilists_in_subobject_by_prim_state"
    /\ last.args = <<Lod1, 0, 1>>
    /\ last.exc = "none" /\ ~last.ok /\ last.idx = 0
    /\ file.text = DocSingle
    /\ Len(VertexScan(lines.subs[<<Lod1, 0>>])) = 5

\* the three triangles with the cyclic order of T
Rotations(T) == {T, <<T[2], T[3], T[1]>>, <<T[3], T[1], T[2]>>}

\* T with vertex x replaced by y
Replaced(T, x, y) == [j \in 1..3 |-> IF T[j] = x THEN y ELSE T[j]]

\* C19: the two triangles that insert_vertex_between emits for a split
\* triangle preserve its winding order: for an original triangle with cyclic
\* order (a, b, c) that contains v1 and v2, one new triangle is the original
\* with v2 replaced by the new vertex and the other is the original with v1
\* replaced by the new vertex, each in the same cyclic order as the
\* original, whichever positions v1 and v2 occupy in the triangle.
\* (Vertices are named by their index after the insertion: an index at or
\* above the new vertex's slot went up by one.)
C19_WindingPreserved ==
    [][Returned("insert_vertex_between") =>
          LET i == last'.args[1]
              k == last'.idx
              Up(x) == IF x >= k THEN x + 1 ELSE x
              v1 == vh[last'.args[2]].idx
              v2 == vh[last'.args[3]].idx
              old == th[i].v
              new == th'[i].v
              Emitted(T) == \E u \in 0..(TriCount(new) - 1) : Tri(new, u) \in Rotations(T)
          IN  v1 # v2 =>
                \A t \in TrisWithBoth(old, v1, v2) :
                    LET T == <<Up(Tri(old, t)[1]), Up(Tri(old, t)[2]), Up(Tri(old, t)[3])>>
                    IN  /\ Emitted(Replaced(T, Up(v2), k))
                        /\ Emitted(Replaced(T, Up(v1), k))]_vars

\* the coordinates of row in the plane, and the squared distance of two
\* rows projected onto it
Projected(row, plane) == IF plane = "xz" THEN <<row[1], row[3]>> ELSE <<row[1], row[2]>>

ProjectedDistance2(a, b, plane) ==
    LET p == Projected(a, plane)
        q == Projected(b, plane)
    IN  (p[1] - q[1]) * (p[1] - q[1]) + (p[2] - q[2]) * (p[2] - q[2])

CenterpointReturned == last.op = "find_closest_centerpoint"

C21_ClosestHoldsNearestSample ==
    (last.op = "find_closest_trackcenter" /\ last.exc = "none" /\ geo.trackcenters # <<>>)
        => LET p == to_numpy(geo.point)
               tcs == geo.trackcenters
           IN  /\ \E k \in 1..Len(tcs) : geo.ret = tcs[k]
               /\ \E i \in 1..Len(geo.ret.centerpoints) :
                     \A k \in 1..Len(tcs) : \A j \in 1..Len(tcs[k].centerpoints) :
                        ProjectedDistance2(geo.ret.centerpoints[i], p, geo.plane)
                           <= ProjectedDistance2(tcs[k].centerpoints[j], p, geo.plane)

\* C23: with start_angle = 0, generate_straight_centerpoints returns
\* num_points samples, the first at start_point, the last at start_point +
\* (0, 0, length), x and y constant and z strictly increasing in equal
\* steps, for every start_point
C23_StraightRunsFromStartPoint ==
    (last.op = "generate_straight_centerpoints" /\ geo.start_angle = 0)
        => LET c == geo.ret.centerpoints
               p == geo.start_point
               n == geo.num_points
           IN  /\ Len(c) = n
               /\ c[1] = <<p.x, p.y, p.z>>
               /\ c[n] = <<p.x, p.y, p.z + geo.length>>
               /\ \A i \in 1..n : c[i][1] = p.x /\ c[i][2] = p.y
               /\ \A i \in 1..(n - 1) :
                     /\ c[i + 1][3] > c[i][3]
                     /\ c[i + 1][3] - c[i][3] = c[2][3] - c[1][3]

\* the routes of the shape asked for, as the database holds them
RoutesAsked == geo.tsection.shapes[2].section_idxs

\* max(10, floor(L * num_points_per_meter)) for a section of physical
\* length L: the length of a straight, the arc of a curve
SectionSamples(m) ==
    LET L1000 == IF m.radius # None THEN (Abs(m.radius * m.angle) * 355 * 1000) \div (113 * 180)
                 ELSE m.length * 1000
        n == (L1000 * geo.num_points_per_meter) \div 1000
    IN  IF n > 10 THEN n ELSE 10

\* the samples of the first k sections of a route, counted
SamplesBefore(route, k) ==
    SumSeq([j \in 1..(k - 1) |-> SectionSamples(TrackSections[route.tracksection_idxs[j]])])

\* the part of a route's samples that section k contributed
SectionPart(c, route, k) ==
    SubSeq(c, SamplesBefore(route, k) + 1, SamplesBefore(route, k + 1))

\* the heading at the start of section k: the route's start angle and the
\* angles of the curves before it
Heading(route, k) ==
    route.start_angle
      + SumSeq([j \in 1..(k - 1) |->
                   LET m == TrackSections[route.tracksection_idxs[j]]
                   IN  IF m.radius # None THEN m.angle ELSE 0])

\* the samples the generators give for section m laid from a point
SectionFrom(m, point, heading) ==
    IF m.radius # None
    THEN generate_curve_centerpoints(m.radius, m.angle, SectionSamples(m), heading, point)
    ELSE generate_straight_centerpoints(m.length, SectionSamples(m), heading, point)

\* C24: one Trackcenter per route of the shape, in database order, each
\* the in-order concatenation of the samples of its sections, a section of
\* physical length L contributing max(10, floor(L * num_points_per_meter))
\* samples, so that a route has the sum of its sections' counts
C24_OneTrackcenterPerRoute ==
    (last.op = "generate_trackcenters_from_tsection" /\ last.exc = "none")
        => /\ Len(geo.ret) = Len(RoutesAsked)
           /\ \A r \in 1..Len(RoutesAsked) :
                 LET route == RoutesAsked[r]
                     c == geo.ret[r].centerpoints
                     ids == route.tracksection_idxs
                 IN  /\ Len(c) = SamplesBefore(route, Len(ids) + 1)
                     /\ \A i \in 1..Len(c) : c[i][2] = route.start[2] + geo.start_offset.y
                     /\ \A k \in 1..Len(ids) :
                           LET y == route.start[2] + geo.start_offset.y
                               before == SectionPart(c, route, k - 1)
                               from == IF k = 1
                                       THEN Point(route.start[1] + geo.start_offset.x, y,
                                                  route.start[3] + geo.start_offset.z)
                                       ELSE Point(before[Len(before)][1], y,
                                                  before[Len(before)][3])
                           IN  SectionPart(c, route, k)
                                  = SectionFrom(TrackSections[ids[k]], from,
                                                Heading(route, k)).centerpoints

\* two routes, the first of a long straight and a curve
C24_Witness ==
    /\ last.op = "generate_trackcenters_from_tsection"
    /\ last.exc = "none"
    /\ geo.num_points_per_meter = 2
    /\ Len(geo.ret) = 2
    /\ RoutesAsked[1].tracksection_idxs = <<2, 3>>
    /\ RoutesAsked[2].tracksection_idxs = <<1>>
    /\ Len(geo.ret[1].centerpoints) = 34
    /\ Len(geo.ret[2].centerpoints) = 10

\* C25: the sections of a route are chained: the first sample of the first
\* section is the route's start position plus start_offset, and the first
\* sample of every later section is the last sample of the section before
C25_SectionsChained ==
    (last.op = "generate_trackcenters_from_tsection" /\ last.exc = "none")
        => \A r \in 1..Len(RoutesAsked) :
              LET route == RoutesAsked[r]
                  c == geo.ret[r].centerpoints
                  ids == route.tracksection_idxs
              IN  \A k \in 1..Len(ids) :
                     LET part == SectionPart(c, route, k)
                         before == SectionPart(c, route, k - 1)
                     IN  IF k = 1
                         THEN part[1] = <<route.start[1] + geo.start_offset.x,
                                          route.start[2] + geo.start_offset.y,
                                          route.start[3] + geo.start_offset.z>>
                         ELSE part[1] = before[Len(before)]

\* the samples of the query in the xz plane
AlongXZ ==
    [i \in 1..Len(geo.trackcenter.centerpoints) |->
        <<geo.trackcenter.centerpoints[i][1], geo.trackcenter.centerpoints[i][3]>>]

\* samples i and j are neighbours: within max_neighbor_dist of each other
Neighbours(i, j) ==
    norm2(AlongXZ[i], AlongXZ[j]) <= geo.max_neighbor_dist * geo.max_neighbor_dist

\* no neighbour of sample i is closer to the start point than i
LocalMinimum(i) ==
    \A j \in 1..Len(AlongXZ) :
       Neighbours(i, j) =>
          norm2(AlongXZ[j], <<geo.start_point.x, geo.start_point.z>>)
             >= norm2(AlongXZ[i], <<geo.start_point.x, geo.start_point.z>>)

\* longer than any path: a path has fewer steps than there are samples,
\* each of at most max_neighbor_dist
Far == geo.max_neighbor_dist * Len(AlongXZ)

\* the length of the shortest path of at most k steps from sample i to
\* sample j in the neighbour graph, Far when there is none
RECURSIVE PathLength(_, _, _)
PathLength(i, j, k) ==
    IF i = j THEN 0
    ELSE IF k = 0 THEN Far
    ELSE LET via == {PathLength(i, m, k - 1) + norm(AlongXZ[m], AlongXZ[j]) :
                        m \in {m \in 1..Len(AlongXZ) : m # j /\ Neighbours(m, j)}}
         IN  IF via = {} THEN Far
             ELSE Min(Far, CHOOSE d \in via : \A e \in via : d <= e)

\* C26: on a Trackcenter with samples the search never ends by the
\* fallback: it returns at a sample that is a local minimum of the distance
\* to the start among its neighbours, and the value is the length of the
\* shortest path in the neighbour graph from the sample nearest to the
\* point to that sample, which no local minimum on a shorter path precedes
C26_EndsAtFirstLocalMinimum ==
    last.op = "distance_along_trackcenter"
        => LET n == Len(AlongXZ)
               end_idx == last.idx
           IN  /\ ~geo.fallback
               /\ end_idx \in 1..n
               /\ \A j \in 1..n :
                     norm2(AlongXZ[end_idx], <<geo.point.x, geo.point.z>>)
                        <= norm2(AlongXZ[j], <<geo.point.x, geo.point.z>>)
               /\ geo.at \in 1..n
               /\ LocalMinimum(geo.at)
               /\ geo.ret = PathLength(end_idx, geo.at, n - 1)
               /\ geo.ret < Far
               /\ \A m \in 1..n : LocalMinimum(m) => PathLength(end_idx, m, n - 1) >= geo.ret
               /\ LocalMinimum(end_idx) => geo.ret = 0

\* the search walks from the far end of three samples to the one at the
\* start point
C26_Witness ==
    /\ last.op = "distance_along_trackcenter"
    /\ geo.trackcenter.centerpoints = <<<<0, 0, 0>>, <<0, 0, 4>>, <<0, 0, 8>>>>
    /\ geo.point = Point(0, 0, 8)
    /\ geo.start_point = Point(0, 0, 0)
    /\ geo.max_neighbor_dist = 5
    /\ last.idx = 3
    /\ geo.at = 1
    /\ geo.ret = 8

\* C27: get_new_position_from_trackcenter preserves height: the y of the
\* point returned is the y of the original point, also when the samples of
\* the Trackcenter have another y
C27_HeightPreserved ==
    (last.op = "get_new_position_from_trackcenter" /\ last.exc = "none")
        => geo.ret.y = geo.original_point.y

\* the axes a plane token names, as columns of a triple
PlaneAxes(plane) ==
    {i \in 1..3 : \/ i = 1 /\ plane \in {"x", "xy", "xz", "xyz"}
                  \/ i = 2 /\ plane \in {"y", "xy", "zy", "xyz"}
                  \/ i = 3 /\ plane \in {"z", "xz", "zy", "xyz"}}

\* the Euclidean distance of two points on the axes of a plane, squared
PlaneDistance2(a, b, plane) ==
    LET d(i) == IF i \in PlaneAxes(plane)
                THEN (to_numpy(a)[i] - to_numpy(b)[i]) * (to_numpy(a)[i] - to_numpy(b)[i])
                ELSE 0
    IN  d(1) + d(2) + d(3)

\* C22: for every supported plane token the magnitude of the result of
\* signed_distance_between is the Euclidean distance of the two points
\* projected onto the axes the token names (so the result is zero only
\* when the two projections coincide)
C22_MagnitudeIsProjectedDistance ==
    (last.op = "signed_distance_between" /\ last.exc = "none")
        => Magnitude2(geo.ret) = PlaneDistance2(geo.point1, geo.point2, geo.plane)


\* Vertex handle v names the record of the document it was read from
VertexValid(d, v) ==
    LET r == get_vertex_in_subobject_by_idx(d, v.lod, v.sub, v.idx)
    IN  /\ r # NoVertex
        /\ r.pidx = v.pidx
        /\ r.uvidx = v.uvidx
        /\ r.nidx = v.nidx

\* IndexedTrilist handle h has the vertex_idxs of its trilist in the document
TrilistValid(d, h) ==
    /\ InDocument(d, h)
    /\ ParseLines(d.subs[<<h.lod, h.sub>>].tl[h.tidx + 1].v) = h.v

\* C28: handles stay valid across an insertion: after add_vertex_to_subobject
\* (also inside insert_vertex_between) has inserted a vertex, every Vertex
\* handle the client held still names the same vertex record and every
\* IndexedTrilist handle the client held has the vertex_idxs of the document.
C28_HandlesStayValid ==
    [][(Returned("add_vertex_to_subobject") \/ Returned("insert_vertex_between")) =>
          /\ \A j \in 1..Len(vh) : VertexValid(lines, vh[j]) => VertexValid(lines', vh'[j])
          /\ \A j \in 1..Len(th) : TrilistValid(lines, th[j]) => TrilistValid(lines', th'[j])]_vars


\* the vertex sets of sub-object s tile its vertex arena: the first starts
\* at 0, each later one where the one before ends, and the counts sum to
\* the declared vertices count
Tiles(s) ==
    /\ \A m \in 1..Len(s.vsets) :
          s.vsets[m].start = SumSeq([j \in 1..(m - 1) |-> s.vsets[j].count])
    /\ SumSeq([m \in 1..Len(s.vsets) |-> s.vsets[m].count]) = s.vcount

\* C29: a call of add_vertex_to_subobject (also inside insert_vertex_between)
\* on a document where the vertex sets of a sub-object tile its vertex
\* arena leaves them tiling it, whatever the outcome of the call; when the
\* call returns the new vertex, exactly one vertex set of the sub-object,
\* the one owning the given trilist, grew by one and no other count changed.
C29_VertexSetsStillTile ==
    [][(Called("add_vertex_to_subobject") \/ Called("insert_vertex_between")) =>
          LET h == IF last'.op = "add_vertex_to_subobject" THEN th[last'.args[3]]
                   ELSE th[last'.args[1]]
          IN  \A key \in SubKeys(lines) :
                 Tiles(lines.subs[key]) =>
                    /\ key \in SubKeys(lines')
                    /\ Tiles(lines'.subs[key])
                    /\ Len(lines'.subs[key].vsets) = Len(lines.subs[key].vsets)
                    /\ (last'.exc = "none" /\ last'.ok /\ key = <<h.lod, h.sub>>) =>
                          LET m == OwnerSet(lines.subs[key], h.tidx)
                          IN  /\ m # 0
                              /\ \A j \in 1..Len(lines.subs[key].vsets) :
                                    lines'.subs[key].vsets[j].count
                                       = lines.subs[key].vsets[j].count
                                            + (IF j = m THEN 1 ELSE 0)]_vars

\* a vertex was added to each of the two vertex sets of a sub-object, the
\* second one through a trilist of the second geometry node
C29_Witness ==
    /\ nops = 2
    /\ last.op = "add_vertex_to_subobject"
    /\ last.exc = "none"
    /\ last.ok
    /\ th[last.args[3]].tidx = 2
    /\ lines.subs[<<Lod1, 0>>].vsets
          = <<[idx |-> 0, start |-> 0, count |-> 4], [idx |-> 1, start |-> 4, count |-> 4]>>
    /\ lines.subs[<<Lod1, 0>>].vcount = 8


\* the step is a mutation that reports failure: a trilist mutation that
\* returns false, or add_vertex_to_subobject that returns no vertex or
\* raises after its scope checks
Failed ==
    /\ nops' = nops + 1
    /\ \/ /\ last'.op \in {"insert_triangle_between", "remove_triangle_between",
                           "remove_triangles_connected_to_vertex"}
          /\ last'.exc = "none"
          /\ ~last'.ok
       \/ /\ last'.op = "add_vertex_to_subobject"
          /\ ~last'.ok
          /\ ~ScopeMismatch(last'.op, last'.args)

\* C30: a mutation that reports failure has changed nothing in the
\* document: the points, uv_points, normals, vertex sets, vertices and
\* trilists and all their counts are the same as before the call.
C30_FailureChangesNothing ==
    [][Failed => lines' = lines]_vars

====
